---- MODULE Spec2Model ----
(***************************************************************************)
(* PDF translation service (pablocpas/pdf_translate_vue).                  *)
(*                                                                         *)
(* The repository holds three deployments of the same product:             *)
(*   "monolithic" : backend/main.py + worker/tasks.py (S3/MinIO, chord)     *)
(*   "original"   : backend/main_original.py + worker/tasks_original.py     *)
(*   "modular"    : backend/services/task_service.py (Celery built-ins)     *)
(* One behaviour of the model is one document in one deployment.           *)
(*                                                                         *)
(* The Celery result backend is modelled as two maps over task ids:        *)
(* cstate (the stored state) and cinfo (the stored result / meta).  A task *)
(* body that returns normally is stored as SUCCESS with its return value,  *)
(* whatever state the body wrote with update_state before returning.       *)
(***************************************************************************)
EXTENDS Integers, Sequences, FiniteSets, TLC

\* ------------------------------------------------------------------ bounds
MaxPages == 2
MaxTexts == 12
MaxChars == 3
MaxBoxHeight == 200
MaxNameLen == 4
MaxTextLen == 1
MaxListPages == 4
MaxDepth == 3
MaxRequests == 5
MaxBlocks == 2
MaxBlockTextLen == 2

\* ------------------------------------------------------- program constants
MaxRetries == 3
retry_backoff_max == 60
batch_size == 10
MAX_FILE_SIZE_MB == 50
\* delete_prefix: the batch-delete limit of the object store
delete_batch_limit == 1000
\* download_bytes: the default number of attempts
max_retries == 3
\* the number of stages process_translation reports progress against
TotalSteps == 6
\* font sizes in tenths of a point: 8 (callers), 6 and 72 (defaults)
caller_min_font_size == 80
default_min_font_size == 60
default_max_font_size == 720

\* ------------------------------------------------------------------- names
None == "None"
ErrMsg == "boom"
NoPtrMsg == "Orchestrator task succeeded but did not return a result task ID."

OrchId == "orch"
LayoutId == "layout"
FinId == "fin"
TaskIds == {OrchId, LayoutId, FinId}

OriginalKey == "original.pdf"
TranslatedKey == "translated/translated.pdf"
TranslationKey == "translated/translated_translation_data.json"
PositionKey == "translated/translated_translation_data_position.json"
MetaKey == "translated/metadata.json"

Deployments == {"monolithic", "original", "modular"}

\* text boxes, in tenths of a point: heights in steps of half a point
BoxWidths == {50, 5000}
BoxHeights == {5 * k : k \in 1 .. MaxBoxHeight}

\* the characters filenames are made of, and the base directories "/a", "/a/b"
FilenameChars == {"a", ".", "/", " "}
BasePaths == {<<"/", "a">>, <<"/", "a", "/", "b">>}

\* the characters of the texts in a TranslationData, and the task ids used
TextChars == {"a", "\"", "\\", "\n"}
FsTaskIds == {"task1", "task2"}

\* the letters and digits that occur in the names used
AlnumChars == {"a", "t", "x", "p", "d", "f", "T", "P", "D", "F", "k", "u", "1", "2"}

\* uploads: the names "t.pdf", "T.PDF", "t.txt", "t", ".pdf" and "t.pdf.txt";
\* content sizes in bytes around the ceiling; the upload directory "/u"; the
\* task id "k"; the 8 hexadecimal digits of a uuid, written "1" or "2"
UploadNames ==
    {<<"t", ".", "p", "d", "f">>, <<"T", ".", "P", "D", "F">>, <<"t", ".", "t", "x", "t">>,
     <<"t">>, <<".", "p", "d", "f">>, <<"t", ".", "p", "d", "f", ".", "t", "x", "t">>}
UploadSizes ==
    {1, MAX_FILE_SIZE_MB * 1024 * 1024, MAX_FILE_SIZE_MB * 1024 * 1024 + 1}
upload_dir == <<"/", "u">>
UploadTaskId == <<"k">>
UniqueIds == {<<"1">>, <<"2">>}
SUPPORTED_FILE_EXTENSIONS == {<<".", "p", "d", "f">>}

VARIABLES
    deployment,   \* which of the three deployments this behaviour runs
    upload,       \* outcome of the submit request: "none", "accepted", "http500", "http400"
    cstate,       \* result backend: task id -> stored state
    cinfo,        \* result backend: task id -> stored result / meta
    opc,          \* orchestrator task position
    lpc,          \* batch layout task position
    fpc,          \* finalizer task position
    ppc,          \* page task positions, page index -> position
    pretries,     \* page index -> automatic retries used so far
    prun,         \* page index -> what the task's latest execution raised, and the retry countdown
    npages,       \* number of raster pages of the document
    results,      \* page results in the order the chord collected them
    finResults,   \* results_list inside the finalizer, after its sort
    s3,           \* object keys present under the task prefix
    s3pages,      \* page indexes whose raster page_{idx:03d}.png is stored
    pdf,          \* stored translated PDF: sequence of rendered pages
    tdata,        \* stored TranslationData: sequence of page entries
    pdata,        \* stored PositionData: sequence of page entries
    meta,         \* stored metadata document
    revoked,      \* modular: a revoke has been sent for the task
    cancel,       \* modular: outcome and HTTP status of the latest cancel request
    resp,         \* last answer of the status endpoint
    texts,            \* translation engine: the input list
    tpc,              \* translation engine: position of the running function
    batch_i,          \* _translate_batch: start index i of the current sub-batch
    all_translations, \* _translate_batch: translations gathered so far
    translations,     \* _translate_individually: translations gathered so far
    failed_count,     \* _translate_individually: texts left untranslated
    tapi,             \* the upstream API's outcome of the latest call
    tresult,          \* what the function returned
    fit,              \* font fit: the arguments of adjust_paragraph_font_size
    style,            \* font fit: the ParagraphStyle (fontSize, leading)
    apc,              \* font fit: position of the call
    base_path,        \* get_safe_path: the base directory, as the text of its path
    filename,         \* get_safe_path: the filename argument
    gpc,              \* get_safe_path: position of the call
    gresult,          \* get_safe_path: the path returned or the error raised
    fs_pc,            \* file service: which operations are exercised
    files,            \* file service: translated directory, path -> text of the file
    uploads,          \* file service: the files of the upload directory
    fs_last,          \* file service: the latest call, its arguments and outcome
    up_last,          \* file service: the latest save_uploaded_file call and outcome
    wpc,              \* process_translation: position of the call
    stage_results,    \* process_translation: what each executed stage returned, in order
    progress,         \* process_translation: the progress callbacks made
    process_result,   \* process_translation: the TaskResult returned
    e_impl,           \* edit: which regeneration serves the endpoint (s3 or local)
    e_tdata,          \* edit: the stored TranslationData pages
    e_pdata,          \* edit: the stored PositionData
    e_pdf,            \* edit: the stored translated PDF, a sequence of rendered pages
    req,              \* edit: request -> position, body and answer of a PUT request
    regen_last,       \* edit: the latest regeneration, its request and outcome
    d_pc,             \* download_bytes: position of the call
    d_attempts,       \* download_bytes: what happened in each pass of the retry loop
    d_waits,          \* download_bytes: the sleeps made, in tenths of a second
    d_result,         \* download_bytes: the data returned or the exception raised
    del_pc,           \* delete_prefix: position of the call
    to_delete,        \* delete_prefix: number of keys gathered and not yet sent
    pages_listed,     \* delete_prefix: listing pages consumed so far
    delete_requests,  \* delete_prefix: the batch-delete requests sent, as numbers of keys
    _MODEL_CACHE,     \* preload_models._MODEL_CACHE: <<>> or the cached LayoutModel object
    _instances,       \* LayoutModel._instances: <<>> or the registered LayoutModel object
    _USE_PRELOAD_CACHE, \* layout.py: whether preload_models could be imported
    model_file_exists, \* whether the model file is on disk
    layout_models,    \* the YOLO model each LayoutModel object holds, in order of creation
    yolo_built,       \* number of YOLO models built from the file
    asked,            \* the requests made for the layout model, in order
    returned,         \* the LayoutModel object each request was answered with, 0 when it raised
    bpc,              \* translate_text_blocks: position of the call
    text_blocks,      \* translate_text_blocks: the input blocks
    language_supported, \* translate_text_blocks: whether validate_language_code accepts the target language
    blocks_result     \* translate_text_blocks: the TaskResult returned

vars == <<deployment, upload, cstate, cinfo, opc, lpc, fpc, ppc, pretries, prun, npages,
          results, finResults, s3, s3pages, pdf, tdata, pdata, meta, revoked, cancel, resp,
          texts, tpc, batch_i, all_translations, translations, failed_count, tapi,
          tresult, fit, style, apc, base_path, filename, gpc, gresult,
          fs_pc, files, uploads, fs_last, up_last,
          wpc, stage_results, progress, process_result,
          e_impl, e_tdata, e_pdata, e_pdf, req, regen_last,
          d_pc, d_attempts, d_waits, d_result,
          del_pc, to_delete, pages_listed, delete_requests,
          _MODEL_CACHE, _instances, _USE_PRELOAD_CACHE, model_file_exists, layout_models, yolo_built, asked, returned,
          bpc, text_blocks, language_supported, blocks_result>>

pipeVars == <<opc, lpc, fpc, ppc, pretries, prun, npages, results, finResults>>
storeVars == <<s3, s3pages, pdf, tdata, pdata, meta>>
pipelineVars == <<deployment, upload, cstate, cinfo, pipeVars, storeVars, revoked, cancel, resp>>
trVars == <<texts, tpc, batch_i, all_translations, translations, failed_count, tapi,
            tresult>>
\* the variables outside the document pipeline and its endpoints
fontVars == <<fit, style, apc>>
pathVars == <<base_path, filename, gpc, gresult>>
fsVars == <<fs_pc, files, uploads, fs_last, up_last>>
processVars == <<wpc, stage_results, progress, process_result>>
editVars == <<e_impl, e_tdata, e_pdata, e_pdf, req, regen_last>>
downloadVars == <<d_pc, d_attempts, d_waits, d_result>>
deleteVars == <<del_pc, to_delete, pages_listed, delete_requests>>
layoutVars == <<_MODEL_CACHE, _instances, _USE_PRELOAD_CACHE, model_file_exists,
                layout_models, yolo_built, asked, returned>>
blocksVars == <<bpc, text_blocks, language_supported, blocks_result>>
extVars == <<trVars, fontVars, pathVars, fsVars, processVars, editVars, downloadVars,
             deleteVars, layoutVars, blocksVars>>
notTrVars == <<pipelineVars, fontVars, pathVars, fsVars, processVars, editVars,
               downloadVars, deleteVars, layoutVars, blocksVars>>
notFontVars == <<pipelineVars, trVars, pathVars, fsVars, processVars, editVars,
                 downloadVars, deleteVars, layoutVars, blocksVars>>
notPathVars == <<pipelineVars, trVars, fontVars, fsVars, processVars, editVars,
                 downloadVars, deleteVars, layoutVars, blocksVars>>
notFsVars == <<pipelineVars, trVars, fontVars, pathVars, processVars, editVars,
               downloadVars, deleteVars, layoutVars, blocksVars>>
notProcessVars == <<pipelineVars, trVars, fontVars, pathVars, fsVars, editVars,
                    downloadVars, deleteVars, layoutVars, blocksVars>>
notEditVars == <<pipelineVars, trVars, fontVars, pathVars, fsVars, processVars,
                 downloadVars, deleteVars, layoutVars, blocksVars>>
notDownloadVars == <<pipelineVars, trVars, fontVars, pathVars, fsVars, processVars,
                     editVars, deleteVars, layoutVars, blocksVars>>
notDeleteVars == <<pipelineVars, trVars, fontVars, pathVars, fsVars, processVars,
                   editVars, downloadVars, layoutVars, blocksVars>>
notLayoutVars == <<pipelineVars, trVars, fontVars, pathVars, fsVars, processVars,
                   editVars, downloadVars, deleteVars, blocksVars>>
notBlocksVars == <<pipelineVars, trVars, fontVars, pathVars, fsVars, processVars,
                   editVars, downloadVars, deleteVars, layoutVars>>

PageIdx == 0 .. (MaxPages - 1)

\* ------------------------------------------------------------ info records
NoInfo ==
    [keys |-> {}, status |-> "", result_task_id |-> "", translated_key |-> "",
     exc_message |-> "", error |-> "", errors |-> <<>>]

ProgressMeta(text) == [NoInfo EXCEPT !.keys = {"status"}, !.status = text]

FailureMeta(msg) ==
    [NoInfo EXCEPT !.keys = {"exc_type", "exc_message"}, !.exc_message = msg]

FailedReturn(msg) ==
    [NoInfo EXCEPT !.keys = {"status", "error"}, !.status = "failed", !.error = msg]

NoMeta == [pages |-> 0, errors |-> <<>>]

NoResp ==
    [code |-> 0, status |-> "-", error |-> None, o_state |-> "-", has_ptr |-> FALSE,
     x_state |-> "-"]

\* Python truthiness of an optional string (None and "" are falsy)
Truthy(e) == e # None /\ e # ""

\* ------------------------------------------------------------ page results
PageOk(p) ==
    [page_number |-> p, text_regions |-> <<"text">>, image_regions |-> <<"image">>,
     error |-> None]
PagePlaceholder(p, msg) ==
    [page_number |-> p, text_regions |-> <<>>, image_regions |-> <<>>, error |-> msg]

\* what a page task's latest execution raised: "none", "other" (any exception
\* but FlexibleChecksumError) or "checksum"; countdown is the delay of the
\* retry it was re-queued with (0 when it was not re-queued)
NoRun == [exc |-> "none", countdown |-> 0]
Ran(exc, countdown) == [exc |-> exc, countdown |-> countdown]

Min(a, b) == IF a < b THEN a ELSE b

\* retry_backoff=True, retry_backoff_max=60: the queue's exponential backoff
\* with factor 1, min(maximum, factor * 2 ** retries); with jitter the
\* countdown is drawn from 0 .. this value, which is therefore its ceiling
get_exponential_backoff_interval(retries) == Min(retry_backoff_max, 2 ^ retries)

\* list.sort(key=page_number): stable insertion of r into a sorted list
RECURSIVE SortedInsert(_, _)
SortedInsert(r, sorted) ==
    IF sorted = <<>> THEN <<r>>
    ELSE IF r.page_number < Head(sorted).page_number THEN <<r>> \o sorted
    ELSE <<Head(sorted)>> \o SortedInsert(r, Tail(sorted))

RECURSIVE SortByPageFrom(_, _)
SortByPageFrom(rl, acc) ==
    IF rl = <<>> THEN acc ELSE SortByPageFrom(Tail(rl), SortedInsert(Head(rl), acc))

SortByPageUnsorted(rl) == rl
SortByPage(rl) == SortByPageFrom(rl, <<>>)

\* build_translated_pdf: one output page per entry without error, in list
\* order; image regions of entry i are cropped from raster page_{i:03d}.png
RECURSIVE RenderFrom(_, _)
RenderFrom(rl, i) ==
    IF rl = <<>> THEN <<>>
    ELSE IF Truthy(Head(rl).error) THEN RenderFrom(Tail(rl), i + 1)
    ELSE <<[page_number |-> Head(rl).page_number, raster |-> i,
            text_regions |-> Head(rl).text_regions,
            image_regions |-> Head(rl).image_regions]>>
         \o RenderFrom(Tail(rl), i + 1)

build_translated_pdf_all(rl) == [k \in 1 .. Len(rl) |-> [page_number |-> rl[k].page_number, raster |-> k - 1]]
build_translated_pdf(rl) == RenderFrom(rl, 0)

\* the "pages" comprehension of translation_data / position_data
RECURSIVE DataPages(_)
DataPages(rl) ==
    IF rl = <<>> THEN <<>>
    ELSE IF Truthy(Head(rl).error) THEN DataPages(Tail(rl))
    ELSE <<Head(rl).page_number>> \o DataPages(Tail(rl))

\* errors = [r["error"] for r in results_list if r["error"]]
RECURSIVE ErrorsOf(_)
ErrorsOf(rl) ==
    IF rl = <<>> THEN <<>>
    ELSE IF Truthy(Head(rl).error) THEN <<Head(rl).error>> \o ErrorsOf(Tail(rl))
    ELSE ErrorsOf(Tail(rl))

FinalizeReturn(errs) ==
    [NoInfo EXCEPT !.keys = {"status", "translated_key", "translation_data_key",
                             "position_data_key", "meta_key", "errors"},
                   !.status = "COMPLETED", !.translated_key = TranslatedKey,
                   !.errors = errs]

\* ----------------------------------------- workflow orchestrator at rest
\* process_translation has returned nothing yet
NoTaskResult == [origin |-> 0, success |-> FALSE, raised |-> FALSE, error_code |-> None]
ProcessIdle ==
    /\ wpc = "idle"
    /\ stage_results = <<>>
    /\ progress = <<>>
    /\ process_result = NoTaskResult

\* --------------------------------------------- the edit endpoint at rest
Requests == {1, 2}
NoRequest == [pc |-> "idle", body |-> <<>>, position_data |-> <<>>, error |-> FALSE, code |-> 0]
NoRegeneration == [req |-> 0, ok |-> FALSE, translation_data |-> <<>>]
EditIdle ==
    /\ e_impl = "none"
    /\ e_tdata = <<>>
    /\ e_pdata = [pages |-> <<>>, has_images |-> FALSE]
    /\ e_pdf = <<>>
    /\ req = [r \in Requests |-> NoRequest]
    /\ regen_last = NoRegeneration

\* ------------------------------------------------- download_bytes at rest
NoException == [kind |-> "none", attempt |-> 0]
NoDownload == [outcome |-> "none", bypassed |-> FALSE, exception |-> NoException]
DownloadIdle ==
    /\ d_pc = "idle"
    /\ d_attempts = <<>>
    /\ d_waits = <<>>
    /\ d_result = NoDownload

\* --------------------------------------------------- delete_prefix at rest
DeleteIdle ==
    /\ del_pc = "idle"
    /\ to_delete = 0
    /\ pages_listed = 0
    /\ delete_requests = <<>>

\* ------------------------------------------------ layout model cache at rest
LayoutIdle ==
    /\ _MODEL_CACHE = <<>>
    /\ _instances = <<>>
    /\ _USE_PRELOAD_CACHE = FALSE
    /\ model_file_exists = FALSE
    /\ layout_models = <<>>
    /\ yolo_built = 0
    /\ asked = <<>>
    /\ returned = <<>>

\* -------------------------------------------- translate_text_blocks at rest
NoBlocksResult == [success |-> FALSE, error_code |-> "None", translated_blocks |-> <<>>]
BlocksIdle ==
    /\ bpc = "idle"
    /\ text_blocks = <<>>
    /\ language_supported = FALSE
    /\ blocks_result = NoBlocksResult

\* ------------------------------------------------------------------- Init
\* no cancel request answered yet
NoCancel == [revoke |-> "none", code |-> 0]

\* every task, store and endpoint of the document pipeline at rest
PipelineIdle ==
    /\ upload = "none"
    /\ cstate = [t \in TaskIds |-> "PENDING"]
    /\ cinfo = [t \in TaskIds |-> NoInfo]
    /\ opc = "idle"
    /\ lpc = "idle"
    /\ fpc = "idle"
    /\ ppc = [p \in PageIdx |-> "idle"]
    /\ pretries = [p \in PageIdx |-> 0]
    /\ prun = [p \in PageIdx |-> NoRun]
    /\ npages = 0
    /\ results = <<>>
    /\ finResults = <<>>
    /\ s3 = {}
    /\ s3pages = {}
    /\ pdf = <<>>
    /\ tdata = <<>>
    /\ pdata = <<>>
    /\ meta = NoMeta
    /\ revoked = FALSE
    /\ cancel = NoCancel
    /\ resp = NoResp

\* no translation call in progress
NoApi == [kind |-> "none", count |-> 0]
NoResult ==
    [success |-> FALSE, raised |-> FALSE, error_code |-> None, translations |-> <<>>,
     failed_translations |-> 0]
TranslationIdle ==
    /\ texts = <<>>
    /\ tpc = "idle"
    /\ batch_i = 0
    /\ all_translations = <<>>
    /\ translations = <<>>
    /\ failed_count = 0
    /\ tapi = NoApi
    /\ tresult = NoResult

\* no font fit in progress; a ParagraphStyle's leading (in hundredths of a
\* point) is 1.2 times its font size (in tenths)
ParagraphStyle(size) == [fontSize |-> size, leading |-> 12 * size]

NoFit ==
    [caller |-> "none", paragraph |-> 0, available_width |-> 0, available_height |-> 0,
     min_font_size |-> 0, max_font_size |-> 0]
FontIdle ==
    /\ fit = NoFit
    /\ style = ParagraphStyle(0)
    /\ apc = "idle"

\* no call of get_safe_path in progress
PathIdle ==
    /\ base_path = <<>>
    /\ filename = <<>>
    /\ gpc = "idle"
    /\ gresult = [raised |-> None, path |-> <<>>]

\* the file service at rest: empty directories, no call made
NoOp == [op |-> "none", task_id |-> None, data |-> [t |-> "int", v |-> 0], raised |-> None,
         value |-> [t |-> "int", v |-> 0]]
NoUpload == [filename |-> <<>>, size |-> 0, raised |-> None, path |-> <<>>]
FileServiceIdle ==
    /\ fs_pc = "idle"
    /\ files = <<>>
    /\ uploads = <<>>
    /\ fs_last = NoOp
    /\ up_last = NoUpload

Init ==
    /\ deployment \in Deployments
    /\ PipelineIdle
    /\ BlocksIdle
    /\ LayoutIdle
    /\ DeleteIdle
    /\ DownloadIdle
    /\ EditIdle
    /\ ProcessIdle
    /\ TranslationIdle
    /\ FontIdle
    /\ PathIdle
    /\ FileServiceIdle

SetTask(id, state, info) ==
    /\ cstate' = [cstate EXCEPT ![id] = state]
    /\ cinfo' = [cinfo EXCEPT ![id] = info]

\* ------------------------------------------- monolithic: POST /pdfs/translate
\* The filename check raises HTTPException(400) inside the try block whose
\* "except Exception" handler re-raises it as HTTPException(500).
translate_pdf_endpoint ==
    /\ deployment = "monolithic"
    /\ UNCHANGED extVars
    /\ upload = "none"
    /\ \E isPdf \in BOOLEAN :
         IF isPdf
           THEN /\ upload' = "accepted"
                /\ opc' = "queued"
           ELSE /\ upload' = "http500"
                /\ opc' = opc
    /\ UNCHANGED <<deployment, cstate, cinfo, lpc, fpc, ppc, pretries, prun, npages, results,
                   finResults, storeVars, revoked, cancel, resp>>

\* ------------------------------------------ monolithic: orchestrator task
\* lines 150-154: first update_state
OrchBegin ==
    /\ deployment = "monolithic"
    /\ UNCHANGED extVars
    /\ opc = "queued"
    /\ SetTask(OrchId, "PROGRESS", ProgressMeta("Preparando documento"))
    /\ opc' = "running"
    /\ UNCHANGED <<deployment, upload, lpc, fpc, ppc, pretries, prun, npages, results,
                   finResults, storeVars, revoked, cancel, resp>>

\* lines 155-175: upload the original, rasterize, upload every page raster
OrchPrepare ==
    /\ deployment = "monolithic"
    /\ UNCHANGED extVars
    /\ opc = "running"
    /\ \E outcome \in {"ok", "upload_error", "no_images"}, n \in 1 .. MaxPages :
         CASE outcome = "ok" ->
                /\ s3' = s3 \cup {OriginalKey}
                /\ s3pages' = 0 .. (n - 1)
                /\ npages' = n
                /\ SetTask(OrchId, "PROGRESS",
                           ProgressMeta("Analizando estructura del documento"))
                /\ opc' = "uploaded"
           [] outcome = "upload_error" ->
                /\ UNCHANGED <<s3, s3pages, npages, cstate, cinfo>>
                /\ opc' = "except"
           [] outcome = "no_images" ->
                /\ s3' = s3 \cup {OriginalKey}
                /\ SetTask(OrchId, "PROGRESS", ProgressMeta("Analizando páginas"))
                /\ UNCHANGED <<s3pages, npages>>
                /\ opc' = "except"
    /\ UNCHANGED <<deployment, upload, lpc, fpc, ppc, pretries, prun, results, finResults,
                   pdf, tdata, pdata, meta, revoked, cancel, resp>>

\* lines 179-181: batch_layout_analysis_task.delay(...)
OrchDispatch ==
    /\ deployment = "monolithic"
    /\ UNCHANGED extVars
    /\ opc = "uploaded"
    /\ opc' = "dispatched"
    /\ lpc' = "queued"
    /\ UNCHANGED <<deployment, upload, cstate, cinfo, fpc, ppc, pretries, prun, npages,
                   results, finResults, storeVars, revoked, cancel, resp>>

\* lines 185-189: the pointer handed to the client is result_task.id, the id
\* of the task started by .delay() above
OrchestratorReturn ==
    [NoInfo EXCEPT !.keys = {"status", "message", "result_task_id"},
                   !.status = "PROCESSING", !.result_task_id = LayoutId]

OrchReturn ==
    /\ deployment = "monolithic"
    /\ UNCHANGED extVars
    /\ opc = "dispatched"
    /\ SetTask(OrchId, "SUCCESS", OrchestratorReturn)
    /\ opc' = "done"
    /\ UNCHANGED <<deployment, upload, lpc, fpc, ppc, pretries, prun, npages, results,
                   finResults, storeVars, revoked, cancel, resp>>

\* lines 191-193: the handler records FAILURE ...
OrchExceptUpdate ==
    /\ deployment = "monolithic"
    /\ UNCHANGED extVars
    /\ opc = "except"
    /\ SetTask(OrchId, "FAILURE", FailureMeta(ErrMsg))
    /\ opc' = "failing"
    /\ UNCHANGED <<deployment, upload, lpc, fpc, ppc, pretries, prun, npages, results,
                   finResults, storeVars, revoked, cancel, resp>>

\* line 194: ... and then returns normally, which the queue stores as SUCCESS
OrchExceptReturn ==
    /\ deployment = "monolithic"
    /\ UNCHANGED extVars
    /\ opc = "failing"
    /\ SetTask(OrchId, "SUCCESS", FailedReturn(ErrMsg))
    /\ opc' = "done"
    /\ UNCHANGED <<deployment, upload, lpc, fpc, ppc, pretries, prun, npages, results,
                   finResults, storeVars, revoked, cancel, resp>>

\* -------------------------------------- monolithic: batch_layout_analysis_task
LayoutReturn ==
    [NoInfo EXCEPT !.keys = {"status", "finalize_task_id"},
                   !.status = "Translation tasks dispatched"]

\* lines 199-212: download the rasters, batch layout, length check, update_state
LayoutAnalyse ==
    /\ deployment = "monolithic"
    /\ UNCHANGED extVars
    /\ lpc = "queued"
    /\ \E ok \in BOOLEAN :
         IF ok
           THEN /\ SetTask(LayoutId, "PROGRESS", ProgressMeta("Traduciendo contenido"))
                /\ lpc' = "running"
           ELSE /\ UNCHANGED <<cstate, cinfo>>
                /\ lpc' = "except"
    /\ UNCHANGED <<deployment, upload, opc, fpc, ppc, pretries, prun, npages, results,
                   finResults, storeVars, revoked, cancel, resp>>

\* lines 215-221: chord(group(page tasks))(finalize_task)
LayoutDispatchChord ==
    /\ deployment = "monolithic"
    /\ UNCHANGED extVars
    /\ lpc = "running"
    /\ ppc' = [p \in PageIdx |-> IF p < npages THEN "queued" ELSE "idle"]
    /\ lpc' = "dispatched"
    /\ UNCHANGED <<deployment, upload, cstate, cinfo, opc, fpc, pretries, prun, npages,
                   results, finResults, storeVars, revoked, cancel, resp>>

\* line 225
LayoutDone ==
    /\ deployment = "monolithic"
    /\ UNCHANGED extVars
    /\ lpc = "dispatched"
    /\ SetTask(LayoutId, "SUCCESS", LayoutReturn)
    /\ lpc' = "done"
    /\ UNCHANGED <<deployment, upload, opc, fpc, ppc, pretries, prun, npages, results,
                   finResults, storeVars, revoked, cancel, resp>>

\* lines 227-229
LayoutExceptUpdate ==
    /\ deployment = "monolithic"
    /\ UNCHANGED extVars
    /\ lpc = "except"
    /\ SetTask(LayoutId, "FAILURE", FailureMeta(ErrMsg))
    /\ lpc' = "failing"
    /\ UNCHANGED <<deployment, upload, opc, fpc, ppc, pretries, prun, npages, results,
                   finResults, storeVars, revoked, cancel, resp>>

\* line 231
LayoutExceptReturn ==
    /\ deployment = "monolithic"
    /\ UNCHANGED extVars
    /\ lpc = "failing"
    /\ SetTask(LayoutId, "SUCCESS", FailedReturn(ErrMsg))
    /\ lpc' = "done"
    /\ UNCHANGED <<deployment, upload, opc, fpc, ppc, pretries, prun, npages, results,
                   finResults, storeVars, revoked, cancel, resp>>

\* --------------------------------------- monolithic: translate_page_content_task
\* The chord collects a page result when its task returns; the callback is
\* queued with the collected list once every header task has returned.
ChordCollect(p, r) ==
    /\ results' = Append(results, r)
    /\ ppc' = [ppc EXCEPT ![p] = "done"]
    /\ fpc' = IF Len(results) + 1 = npages THEN "queued" ELSE fpc

\* lines 242-267: the page is processed and returned with error = None
PageSucceed(p) ==
    /\ deployment = "monolithic"
    /\ UNCHANGED extVars
    /\ ppc[p] = "queued"
    /\ ChordCollect(p, PageOk(p))
    /\ prun' = [prun EXCEPT ![p] = Ran("none", 0)]
    /\ UNCHANGED <<deployment, upload, cstate, cinfo, opc, lpc, pretries, npages,
                   finResults, storeVars, revoked, cancel, resp>>

\* an exception other than FlexibleChecksumError that is let out of the task:
\* the task fails and the chord's callback is never called
PageCatchPropagates(p) ==
    /\ deployment = "monolithic"
    /\ UNCHANGED extVars
    /\ ppc[p] = "queued"
    /\ ppc' = [ppc EXCEPT ![p] = "failed"]
    /\ fpc' = "chord_error"
    /\ SetTask(FinId, "FAILURE", FailureMeta("ChordError"))
    /\ prun' = [prun EXCEPT ![p] = Ran("other", 0)]
    /\ UNCHANGED <<deployment, upload, opc, lpc, pretries, npages, results, finResults,
                   storeVars, revoked, cancel, resp>>

\* lines 273-278: any exception other than FlexibleChecksumError is returned
\* as the per-page placeholder
PageCatch(p) ==
    /\ deployment = "monolithic"
    /\ UNCHANGED extVars
    /\ ppc[p] = "queued"
    /\ ChordCollect(p, PagePlaceholder(p, ErrMsg))
    /\ prun' = [prun EXCEPT ![p] = Ran("other", 0)]
    /\ UNCHANGED <<deployment, upload, cstate, cinfo, opc, lpc, pretries, npages,
                   finResults, storeVars, revoked, cancel, resp>>

\* lines 233-240, 268-270: FlexibleChecksumError is re-raised; autoretry_for
\* re-queues the task while retries remain, afterwards the task fails and
\* the chord's callback is never called (it is marked failed instead)
PageChecksumError(p) ==
    /\ deployment = "monolithic"
    /\ UNCHANGED extVars
    /\ ppc[p] = "queued"
    /\ IF pretries[p] < MaxRetries
         THEN /\ pretries' = [pretries EXCEPT ![p] = @ + 1]
              /\ prun' = [prun EXCEPT ![p] =
                            Ran("checksum", get_exponential_backoff_interval(pretries[p]))]
              /\ UNCHANGED <<ppc, fpc, cstate, cinfo>>
         ELSE /\ ppc' = [ppc EXCEPT ![p] = "failed"]
              /\ fpc' = "chord_error"
              /\ SetTask(FinId, "FAILURE", FailureMeta("ChordError"))
              /\ prun' = [prun EXCEPT ![p] = Ran("checksum", 0)]
              /\ UNCHANGED pretries
    /\ UNCHANGED <<deployment, upload, opc, lpc, npages, results, finResults,
                   storeVars, revoked, cancel, resp>>

\* -------------------------------------------------- monolithic: finalize_task
\* lines 336-342: sort, then update_state
FinBegin ==
    /\ deployment = "monolithic"
    /\ UNCHANGED extVars
    /\ fpc = "queued"
    /\ finResults' = SortByPage(results)
    /\ SetTask(FinId, "PROGRESS", ProgressMeta("Finalizando documento"))
    /\ fpc' = "sorted"
    /\ UNCHANGED <<deployment, upload, opc, lpc, ppc, pretries, prun, npages, results,
                   storeVars, revoked, cancel, resp>>

\* lines 344-354: build the PDF and upload it
FinUploadPdf ==
    /\ deployment = "monolithic"
    /\ UNCHANGED extVars
    /\ fpc = "sorted"
    /\ \E ok \in BOOLEAN :
         IF ok
           THEN /\ pdf' = build_translated_pdf(finResults)
                /\ s3' = s3 \cup {TranslatedKey}
                /\ fpc' = "pdf"
           ELSE /\ UNCHANGED <<pdf, s3>>
                /\ fpc' = "except"
    /\ UNCHANGED <<deployment, upload, cstate, cinfo, opc, lpc, ppc, pretries, prun, npages,
                   results, finResults, s3pages, tdata, pdata, meta, revoked, cancel, resp>>

\* lines 356-397: build translation_data and position_data, upload both
FinUploadData ==
    /\ deployment = "monolithic"
    /\ UNCHANGED extVars
    /\ fpc = "pdf"
    /\ \E outcome \in {"ok", "first_fails", "second_fails"} :
         CASE outcome = "ok" ->
                /\ tdata' = DataPages(finResults)
                /\ pdata' = DataPages(finResults)
                /\ s3' = s3 \cup {TranslationKey, PositionKey}
                /\ fpc' = "data"
           [] outcome = "first_fails" ->
                /\ UNCHANGED <<tdata, pdata, s3>>
                /\ fpc' = "except"
           [] outcome = "second_fails" ->
                /\ tdata' = DataPages(finResults)
                /\ s3' = s3 \cup {TranslationKey}
                /\ UNCHANGED pdata
                /\ fpc' = "except"
    /\ UNCHANGED <<deployment, upload, cstate, cinfo, opc, lpc, ppc, pretries, prun, npages,
                   results, finResults, s3pages, pdf, meta, revoked, cancel, resp>>

\* lines 399-411: metadata
FinUploadMeta ==
    /\ deployment = "monolithic"
    /\ UNCHANGED extVars
    /\ fpc = "data"
    /\ \E ok \in BOOLEAN :
         IF ok
           THEN /\ meta' = [pages |-> Len(finResults), errors |-> ErrorsOf(finResults)]
                /\ s3' = s3 \cup {MetaKey}
                /\ fpc' = "meta"
           ELSE /\ UNCHANGED <<meta, s3>>
                /\ fpc' = "except"
    /\ UNCHANGED <<deployment, upload, cstate, cinfo, opc, lpc, ppc, pretries, prun, npages,
                   results, finResults, s3pages, pdf, tdata, pdata, revoked, cancel, resp>>

\* lines 415-422
FinDone ==
    /\ deployment = "monolithic"
    /\ UNCHANGED extVars
    /\ fpc = "meta"
    /\ SetTask(FinId, "SUCCESS", FinalizeReturn(ErrorsOf(finResults)))
    /\ fpc' = "done"
    /\ UNCHANGED <<deployment, upload, opc, lpc, ppc, pretries, prun, npages, results,
                   finResults, storeVars, revoked, cancel, resp>>

\* lines 424-426
FinExceptUpdate ==
    /\ deployment = "monolithic"
    /\ UNCHANGED extVars
    /\ fpc = "except"
    /\ SetTask(FinId, "FAILURE", FailureMeta(ErrMsg))
    /\ fpc' = "failing"
    /\ UNCHANGED <<deployment, upload, opc, lpc, ppc, pretries, prun, npages, results,
                   finResults, storeVars, revoked, cancel, resp>>

\* line 427
FinExceptReturn ==
    /\ deployment = "monolithic"
    /\ UNCHANGED extVars
    /\ fpc = "failing"
    /\ SetTask(FinId, "SUCCESS", FailedReturn(ErrMsg))
    /\ fpc' = "failed"
    /\ UNCHANGED <<deployment, upload, opc, lpc, ppc, pretries, prun, npages, results,
                   finResults, storeVars, revoked, cancel, resp>>

\* ---------------------------------------- monolithic: GET /pdfs/status/{id}
key_exists(key) == key \in s3

Response(status, err, ostate, ptr, xstate) ==
    [code |-> 200, status |-> status, error |-> err, o_state |-> ostate,
     has_ptr |-> ptr, x_state |-> xstate]

Http500(ostate, ptr, xstate) ==
    [code |-> 500, status |-> "-", error |-> None, o_state |-> ostate,
     has_ptr |-> ptr, x_state |-> xstate]

\* lines 195-246: map the resolved queue state to the answer.  excObject
\* tells whether the result backend handed a FAILURE result back as an
\* exception object (rebuilt from exc_type / exc_message) rather than as the
\* stored mapping; info.get(...) then raises and line 252 answers 500.
MapState(state, info, excObject, ostate, ptr, xstate) ==
    CASE state = "PENDING" -> Response("PENDING", None, ostate, ptr, xstate)
      [] state = "PROGRESS" -> Response("PROCESSING", None, ostate, ptr, xstate)
      [] state = "SUCCESS" ->
           IF key_exists(IF "translated_key" \in info.keys THEN info.translated_key
                         ELSE TranslatedKey)
             THEN Response("COMPLETED", None, ostate, ptr, xstate)
             ELSE Response("PROCESSING", None, ostate, ptr, xstate)
      [] state = "FAILURE" ->
           IF excObject THEN Http500(ostate, ptr, xstate)
           ELSE Response("FAILED",
                         IF "exc_message" \in info.keys THEN info.exc_message ELSE "",
                         ostate, ptr, xstate)
      [] OTHER -> Response("PROCESSING", None, ostate, ptr, xstate)

\* lines 156-190: resolve the state to report, following result_task_id
get_task_status_no_ptr_completed(excObject) ==
    LET ostate == cstate[OrchId]
        oinfo == cinfo[OrchId]
        ptr == "result_task_id" \in oinfo.keys
    IN  IF ostate = "SUCCESS"
          THEN Response("COMPLETED", None, ostate, ptr, "-")
          ELSE MapState(ostate, oinfo, excObject, ostate, ptr, "-")

get_task_status(excObject) ==
    LET ostate == cstate[OrchId]
        oinfo == cinfo[OrchId]
        ptr == "result_task_id" \in oinfo.keys
        xid == oinfo.result_task_id
    IN  IF ostate = "SUCCESS" /\ ptr
          THEN LET xstate == cstate[xid]
                   xinfo == cinfo[xid]
               IN  IF xstate \in {"PENDING", "PROGRESS"}
                     THEN IF key_exists(TranslatedKey)
                            THEN MapState("SUCCESS",
                                          [NoInfo EXCEPT
                                             !.keys = {"status", "translated_key"},
                                             !.status = "DONE",
                                             !.translated_key = TranslatedKey],
                                          excObject, ostate, ptr, xstate)
                            ELSE MapState("PROGRESS",
                                          IF xinfo.keys = {}
                                            THEN ProgressMeta("Finalizando traducción...")
                                            ELSE xinfo,
                                          excObject, ostate, ptr, xstate)
                     ELSE MapState(xstate, xinfo, excObject, ostate, ptr, xstate)
        ELSE IF ostate = "SUCCESS"
          THEN MapState("PROGRESS", ProgressMeta("Procesando resultado..."),
                        excObject, ostate, ptr, "-")
          ELSE MapState(ostate, oinfo, excObject, ostate, ptr, "-")

GetTaskStatus ==
    /\ deployment = "monolithic"
    /\ UNCHANGED extVars
    /\ upload = "accepted"
    /\ \E excObject \in BOOLEAN : resp' = get_task_status(excObject)
    /\ UNCHANGED <<deployment, upload, cstate, cinfo, pipeVars, storeVars, revoked, cancel>>

\* ------------------------------------------- original: POST /pdfs/translate
upload_pdf ==
    /\ deployment = "original"
    /\ UNCHANGED extVars
    /\ upload = "none"
    /\ \E isPdf \in BOOLEAN :
         IF isPdf
           THEN /\ upload' = "accepted"
                /\ opc' = "queued"
           ELSE /\ upload' = "http400"
                /\ opc' = opc
    /\ UNCHANGED <<deployment, cstate, cinfo, lpc, fpc, ppc, pretries, prun, npages, results,
                   finResults, storeVars, revoked, cancel, resp>>

\* ------------------------------------------------- original: translate_pdf
\* lines 39-50: update_state, rasterize
OrigOrchConvert ==
    /\ deployment = "original"
    /\ UNCHANGED extVars
    /\ opc = "queued"
    /\ SetTask(OrchId, "PROGRESS", ProgressMeta("Convirtiendo PDF a imágenes..."))
    /\ \E ok \in BOOLEAN, n \in 1 .. MaxPages :
         IF ok
           THEN /\ npages' = n
                /\ s3pages' = 0 .. (n - 1)
                /\ opc' = "uploaded"
           ELSE /\ UNCHANGED <<npages, s3pages>>
                /\ opc' = "except"
    /\ UNCHANGED <<deployment, upload, lpc, fpc, ppc, pretries, prun, results, finResults,
                   s3, pdf, tdata, pdata, meta, revoked, cancel, resp>>

\* lines 57-78: chord(header)(callback)
OrigOrchChord ==
    /\ deployment = "original"
    /\ UNCHANGED extVars
    /\ opc = "uploaded"
    /\ ppc' = [p \in PageIdx |-> IF p < npages THEN "queued" ELSE "idle"]
    /\ opc' = "dispatched"
    /\ UNCHANGED <<deployment, upload, cstate, cinfo, lpc, fpc, pretries, prun, npages,
                   results, finResults, storeVars, revoked, cancel, resp>>

\* lines 84-88: result_task_id is chord_result.id, the id of the callback
OrigOrchestratorReturn ==
    [NoInfo EXCEPT !.keys = {"status", "message", "result_task_id"},
                   !.status = "PROCESSING", !.result_task_id = FinId]

OrigOrchReturn ==
    /\ deployment = "original"
    /\ UNCHANGED extVars
    /\ opc = "dispatched"
    /\ SetTask(OrchId, "SUCCESS", OrigOrchestratorReturn)
    /\ opc' = "done"
    /\ UNCHANGED <<deployment, upload, lpc, fpc, ppc, pretries, prun, npages, results,
                   finResults, storeVars, revoked, cancel, resp>>

\* lines 90-95
OrigOrchExceptUpdate ==
    /\ deployment = "original"
    /\ UNCHANGED extVars
    /\ opc = "except"
    /\ SetTask(OrchId, "FAILURE", FailureMeta(ErrMsg))
    /\ opc' = "failing"
    /\ UNCHANGED <<deployment, upload, lpc, fpc, ppc, pretries, prun, npages, results,
                   finResults, storeVars, revoked, cancel, resp>>

\* line 96
OrigOrchExceptReturn ==
    /\ deployment = "original"
    /\ UNCHANGED extVars
    /\ opc = "failing"
    /\ SetTask(OrchId, "SUCCESS", FailedReturn(ErrMsg))
    /\ opc' = "done"
    /\ UNCHANGED <<deployment, upload, lpc, fpc, ppc, pretries, prun, npages, results,
                   finResults, storeVars, revoked, cancel, resp>>

\* --------------------------------------------- original: process_page_task
\* lines 98-110: no handler; the page data may itself carry an error entry
OrigPageReturn(p) ==
    /\ deployment = "original"
    /\ UNCHANGED extVars
    /\ ppc[p] = "queued"
    /\ \E r \in {PageOk(p), PagePlaceholder(p, ErrMsg)} : ChordCollect(p, r)
    /\ UNCHANGED <<deployment, upload, cstate, cinfo, opc, lpc, pretries, prun, npages,
                   finResults, storeVars, revoked, cancel, resp>>

OrigPageRaise(p) ==
    /\ deployment = "original"
    /\ UNCHANGED extVars
    /\ ppc[p] = "queued"
    /\ ppc' = [ppc EXCEPT ![p] = "failed"]
    /\ fpc' = "chord_error"
    /\ SetTask(FinId, "FAILURE", FailureMeta("ChordError"))
    /\ UNCHANGED <<deployment, upload, opc, lpc, pretries, prun, npages, results,
                   finResults, storeVars, revoked, cancel, resp>>

\* -------------------------------------------- original: combine_pages_task
\* lines 118-139: sorted(results, key=page_number), first update_state
OrigCombineBegin ==
    /\ deployment = "original"
    /\ UNCHANGED extVars
    /\ fpc = "queued"
    /\ finResults' = SortByPage(results)
    /\ SetTask(FinId, "PROGRESS", ProgressMeta("Ensamblando página"))
    /\ fpc' = "sorted"
    /\ UNCHANGED <<deployment, upload, opc, lpc, ppc, pretries, prun, npages, results,
                   storeVars, revoked, cancel, resp>>

\* lines 138-235: draw the pages, save the PDF, write both JSON files
OrigCombineWrite ==
    /\ deployment = "original"
    /\ UNCHANGED extVars
    /\ fpc = "sorted"
    /\ \E ok \in BOOLEAN :
         IF ok
           THEN /\ pdf' = build_translated_pdf(finResults)
                /\ tdata' = DataPages(finResults)
                /\ pdata' = DataPages(finResults)
                /\ s3' = s3 \cup {TranslatedKey, TranslationKey, PositionKey}
                /\ fpc' = "meta"
           ELSE /\ UNCHANGED <<pdf, tdata, pdata, s3>>
                /\ fpc' = "except"
    /\ UNCHANGED <<deployment, upload, cstate, cinfo, opc, lpc, ppc, pretries, prun, npages,
                   results, finResults, s3pages, meta, revoked, cancel, resp>>

\* lines 237-240
CombineReturn ==
    [NoInfo EXCEPT !.keys = {"status", "output_path"}, !.status = "completed"]

OrigCombineDone ==
    /\ deployment = "original"
    /\ UNCHANGED extVars
    /\ fpc = "meta"
    /\ SetTask(FinId, "SUCCESS", CombineReturn)
    /\ fpc' = "done"
    /\ UNCHANGED <<deployment, upload, opc, lpc, ppc, pretries, prun, npages, results,
                   finResults, storeVars, revoked, cancel, resp>>

\* lines 241-243
OrigCombineExceptUpdate ==
    /\ deployment = "original"
    /\ UNCHANGED extVars
    /\ fpc = "except"
    /\ SetTask(FinId, "FAILURE", FailureMeta(ErrMsg))
    /\ fpc' = "failing"
    /\ UNCHANGED <<deployment, upload, opc, lpc, ppc, pretries, prun, npages, results,
                   finResults, storeVars, revoked, cancel, resp>>

\* line 244
OrigCombineExceptReturn ==
    /\ deployment = "original"
    /\ UNCHANGED extVars
    /\ fpc = "failing"
    /\ SetTask(FinId, "SUCCESS", FailedReturn(ErrMsg))
    /\ fpc' = "failed"
    /\ UNCHANGED <<deployment, upload, opc, lpc, ppc, pretries, prun, npages, results,
                   finResults, storeVars, revoked, cancel, resp>>

\* ------------------------------------------ original: GET /pdfs/status/{id}
\* str(result) of a FAILURE result: the message of the exception object, or
\* the printed mapping
StrOfFailure(info, excObject) ==
    IF excObject THEN info.exc_message ELSE "{'exc_type': .., 'exc_message': ..}"

get_translation_status(excObject) ==
    LET ostate == cstate[OrchId]
        oinfo == cinfo[OrchId]
        ptr == "result_task_id" \in oinfo.keys /\ Truthy(oinfo.result_task_id)
        xid == oinfo.result_task_id
    IN  CASE ostate = "PENDING" -> Response("PENDING", None, ostate, ptr, "-")
          [] ostate = "PROGRESS" -> Response("PROCESSING", None, ostate, ptr, "-")
          [] ostate = "FAILURE" ->
               Response("FAILED", StrOfFailure(oinfo, excObject), ostate, ptr, "-")
          [] ostate = "SUCCESS" ->
               IF ~ptr THEN Response("FAILED", NoPtrMsg, ostate, ptr, "-")
               ELSE LET xstate == cstate[xid]
                        xinfo == cinfo[xid]
                    IN  CASE xstate = "PENDING" ->
                               Response("PROCESSING", None, ostate, ptr, xstate)
                          [] xstate = "PROGRESS" ->
                               Response("PROCESSING", None, ostate, ptr, xstate)
                          [] xstate = "FAILURE" ->
                               Response("FAILED", StrOfFailure(xinfo, excObject),
                                        ostate, ptr, xstate)
                          [] xstate = "SUCCESS" ->
                               IF xinfo.status = "failed"
                                 THEN Response("FAILED",
                                               IF "error" \in xinfo.keys THEN xinfo.error
                                               ELSE "Unknown error during finalization.",
                                               ostate, ptr, xstate)
                                 ELSE Response("COMPLETED", None, ostate, ptr, xstate)
                          [] OTHER -> Response("PROCESSING", None, ostate, ptr, xstate)
          [] OTHER -> Response("PROCESSING", None, ostate, ptr, "-")

GetTranslationStatus ==
    /\ deployment = "original"
    /\ UNCHANGED extVars
    /\ upload = "accepted"
    /\ \E excObject \in BOOLEAN : resp' = get_translation_status(excObject)
    /\ UNCHANGED <<deployment, upload, cstate, cinfo, pipeVars, storeVars, revoked, cancel>>

\* --------------------------------------------------- modular: POST /api/upload
\* routes/upload.py -> TranslationService.start_translation_task: send_task
StartTranslationTask ==
    /\ deployment = "modular"
    /\ UNCHANGED extVars
    /\ upload = "none"
    /\ upload' = "accepted"
    /\ opc' = "queued"
    /\ UNCHANGED <<deployment, cstate, cinfo, lpc, fpc, ppc, pretries, prun, npages, results,
                   finResults, storeVars, revoked, cancel, resp>>

\* ------------------------------------------- modular: the queued task's life
\* The queue's built-in states, with task_track_started enabled: a worker
\* picks the task up (STARTED), the task may be re-queued (RETRY), and it ends
\* in SUCCESS or FAILURE.  A revoked task is discarded or terminated by the
\* worker, which records REVOKED.
ModTaskStarted ==
    /\ deployment = "modular"
    /\ UNCHANGED extVars
    /\ opc \in {"queued", "retry"}
    /\ ~revoked
    /\ SetTask(OrchId, "STARTED", NoInfo)
    /\ opc' = "running"
    /\ UNCHANGED <<deployment, upload, lpc, fpc, ppc, pretries, prun, npages, results,
                   finResults, storeVars, revoked, cancel, resp>>

ModTaskRetry ==
    /\ deployment = "modular"
    /\ UNCHANGED extVars
    /\ opc = "running"
    /\ pretries[0] < MaxRetries
    /\ pretries' = [pretries EXCEPT ![0] = @ + 1]
    /\ SetTask(OrchId, "RETRY", FailureMeta(ErrMsg))
    /\ opc' = "retry"
    /\ UNCHANGED <<deployment, upload, lpc, fpc, ppc, prun, npages, results, finResults,
                   storeVars, revoked, cancel, resp>>

ModTaskSucceeded ==
    /\ deployment = "modular"
    /\ UNCHANGED extVars
    /\ opc = "running"
    /\ SetTask(OrchId, "SUCCESS",
               [NoInfo EXCEPT !.keys = {"translated_file"}, !.translated_key = TranslatedKey])
    /\ s3' = s3 \cup {TranslatedKey}
    /\ opc' = "done"
    /\ UNCHANGED <<deployment, upload, lpc, fpc, ppc, pretries, prun, npages, results,
                   finResults, s3pages, pdf, tdata, pdata, meta, revoked, cancel, resp>>

ModTaskFailed ==
    /\ deployment = "modular"
    /\ UNCHANGED extVars
    /\ opc = "running"
    /\ SetTask(OrchId, "FAILURE", FailureMeta(ErrMsg))
    /\ opc' = "done"
    /\ UNCHANGED <<deployment, upload, lpc, fpc, ppc, pretries, prun, npages, results,
                   finResults, storeVars, revoked, cancel, resp>>

\* ------------------------------------ modular: DELETE /api/translation/{id}
\* error_handler.py lines 71-79: status_mapping.get(type(exc), 500)
pdf_translator_exception_handler(exc) ==
    CASE exc = "ValidationError" -> 400
      [] exc = "FileError" -> 422
      [] exc = "ProcessingError" -> 422
      [] exc = "TranslationError" -> 503
      [] exc = "ConfigurationError" -> 500
      [] OTHER -> 500

\* The application that serves the /api routes installs the handlers of
\* add_exception_handlers (error_handler.py lines 133-143): every domain error
\* leaving a route is answered by pdf_translator_exception_handler.
HandlersInstalled == TRUE

AnswerToDomainError(exc) ==
    IF HandlersInstalled THEN pdf_translator_exception_handler(exc) ELSE 500

\* TaskService.cancel_task, lines 102-125: control.revoke(task_id,
\* terminate=True) returns True, or any exception of revoke is re-raised as
\* ProcessingError(code="TASK_CANCEL_FAILED"); it never returns False.
Cancelled == [outcome |-> "returned", value |-> TRUE, exc |-> None]
CancelRaised(exc) == [outcome |-> "raised", value |-> FALSE, exc |-> exc]

cancel_task(revokeRaises) ==
    IF revokeRaises THEN CancelRaised("ProcessingError") ELSE Cancelled

\* routes/translation.py lines 147-175: cancel_translation answers 200 when
\* cancel_task returns a truthy value and raises HTTPException(500) when it
\* returns a falsy one; an exception of cancel_task leaves the route.
cancel_translation(revokeRaises) ==
    LET success == cancel_task(revokeRaises)
    IN  IF success.outcome = "raised"
          THEN [revoke |-> "failed", code |-> AnswerToDomainError(success.exc)]
          ELSE IF success.value
                 THEN [revoke |-> "sent", code |-> 200]
                 ELSE [revoke |-> "failed", code |-> 500]

CancelTask ==
    /\ deployment = "modular"
    /\ UNCHANGED extVars
    /\ upload = "accepted"
    /\ ~revoked
    /\ \E revokeRaises \in BOOLEAN :
         /\ cancel' = cancel_translation(revokeRaises)
         /\ revoked' = ~revokeRaises
    /\ UNCHANGED <<deployment, upload, cstate, cinfo, pipeVars, storeVars, resp>>

ModTaskRevoked ==
    /\ deployment = "modular"
    /\ UNCHANGED extVars
    /\ revoked
    /\ opc \in {"queued", "running", "retry"}
    /\ SetTask(OrchId, "REVOKED", FailureMeta("TaskRevokedError"))
    /\ opc' = "revoked"
    /\ UNCHANGED <<deployment, upload, lpc, fpc, ppc, pretries, prun, npages, results,
                   finResults, storeVars, revoked, cancel, resp>>

\* ---------------------------- modular: GET /api/translation/{id}/status
\* TaskService.get_task_status, lines 54-63: status_mapping with the PENDING
\* default
StatusMappingRevokedProcessing(state) ==
    CASE state = "PENDING" -> "PENDING"
      [] state = "STARTED" -> "PROCESSING"
      [] state = "SUCCESS" -> "COMPLETED"
      [] state = "FAILURE" -> "FAILED"
      [] state = "RETRY" -> "PROCESSING"
      [] state = "REVOKED" -> "PROCESSING"
      [] OTHER -> "PENDING"

StatusMapping(state) ==
    CASE state = "PENDING" -> "PENDING"
      [] state = "STARTED" -> "PROCESSING"
      [] state = "SUCCESS" -> "COMPLETED"
      [] state = "FAILURE" -> "FAILED"
      [] state = "RETRY" -> "PROCESSING"
      [] state = "REVOKED" -> "FAILED"
      [] OTHER -> "PENDING"

\* lines 66-75: error is filled in only when the state is FAILURE
task_service_get_task_status ==
    LET state == cstate[OrchId]
        info == cinfo[OrchId]
    IN  Response(StatusMapping(state),
                 IF state = "FAILURE"
                   THEN (IF info.keys # {} THEN info.exc_message ELSE "Unknown error")
                   ELSE None,
                 state, FALSE, "-")

TaskServiceGetTaskStatus ==
    /\ deployment = "modular"
    /\ UNCHANGED extVars
    /\ upload = "accepted"
    /\ resp' = task_service_get_task_status
    /\ UNCHANGED <<deployment, upload, cstate, cinfo, pipeVars, storeVars, revoked, cancel>>

\* ================================================= the translation engine
\* core/translation (TranslationEngine, OpenAITranslationClient) and
\* src/domain/translator/translator.py.  A text is a record; the upstream
\* API's translation of a text is the same text in the target language.
Text(n) == [text |-> n, lang |-> "src"]
Translated(t) == [text |-> t.text, lang |-> "tgt"]
\* an item of an upstream response that answers no input text
ExtraItem == [text |-> 0, lang |-> "tgt"]

\* the input lists: n distinct texts
TextList(n) == [k \in 1 .. n |-> Text(k)]

\* The upstream API's outcomes for a call with input list b: the call raises
\* (kind "error"), the structured response cannot be read (kind "other":
\* parsed is None), or it answers with count items, of which count = Len(b)
\* is the correct response.
ApiOutcomes(b) ==
    {[kind |-> "error", count |-> 0], [kind |-> "other", count |-> 0]}
    \cup {[kind |-> "response", count |-> k] : k \in 0 .. Len(b) + 1}

ApiTranslations(b, count) ==
    [j \in 1 .. count |-> IF j <= Len(b) THEN Translated(b[j]) ELSE ExtraItem]

\* TaskResult.success_result / TaskResult.error_result
success_result(tr, failed) ==
    [success |-> TRUE, raised |-> FALSE, error_code |-> None, translations |-> tr,
     failed_translations |-> failed]
error_result(code) ==
    [success |-> FALSE, raised |-> FALSE, error_code |-> code, translations |-> <<>>,
     failed_translations |-> 0]
Raised(code) ==
    [success |-> FALSE, raised |-> TRUE, error_code |-> code, translations |-> <<>>,
     failed_translations |-> 0]

\* openai_client.py lines 149-219
_call_translation_api(b, api) ==
    IF api.kind = "error" THEN error_result("API_CALL_FAILED")
    ELSE IF api.kind = "other" \/ api.count = 0
      THEN error_result("EMPTY_TRANSLATION_RESPONSE")
    ELSE success_result(ApiTranslations(b, api.count), 0)

\* lines 105-106: while len(translations) < len(texts): append texts[len(translations)]
RECURSIVE Pad(_, _)
Pad(tr, b) == IF Len(tr) < Len(b) THEN Pad(Append(tr, b[Len(tr) + 1]), b) ELSE tr

\* translations[:len(texts)]
Truncate(tr, n) == SubSeq(tr, 1, Min(Len(tr), n))

translate_texts_as_answered(b, api) ==
    IF b = <<>> THEN success_result(<<>>, 0) ELSE _call_translation_api(b, api)

\* openai_client.py lines 52-123
translate_texts(b, api) ==
    IF b = <<>> THEN success_result(<<>>, 0)
    ELSE LET api_result == _call_translation_api(b, api)
         IN  IF ~api_result.success THEN api_result
             ELSE success_result(Truncate(Pad(api_result.translations, b), Len(b)), 0)

\* texts[i:i + batch_size]
batch_texts == SubSeq(texts, batch_i + 1, Min(batch_i + batch_size, Len(texts)))

\* translator.py lines 162-183: one round of the loop over sub-batches, up to
\* the call of the client; a failed call hands the sub-batch over to
\* _translate_individually
TranslateBatchCall ==
    /\ tpc = "batch"
    /\ batch_i < Len(texts)
    /\ \E api \in ApiOutcomes(batch_texts) :
         LET batch_result == translate_texts(batch_texts, api)
         IN  /\ tapi' = api
             /\ IF batch_result.success
                  THEN /\ all_translations' = all_translations \o batch_result.translations
                       /\ batch_i' = batch_i + batch_size
                       /\ UNCHANGED tpc
                  ELSE /\ tpc' = "individual"
                       /\ UNCHANGED <<all_translations, batch_i>>
    /\ translations' = <<>>
    /\ failed_count' = 0
    /\ UNCHANGED <<texts, tresult>>
    /\ UNCHANGED notTrVars

\* translator.py lines 216-235: one text of the sub-batch is translated alone
TranslateIndividuallyCall ==
    /\ tpc = "individual"
    /\ Len(translations) < Len(batch_texts)
    /\ LET text == batch_texts[Len(translations) + 1]
       IN  \E api \in ApiOutcomes(<<text>>) :
             LET result == translate_texts(<<text>>, api)
             IN  /\ tapi' = api
                 /\ IF result.success /\ result.translations /= <<>>
                      THEN /\ translations' = Append(translations, result.translations[1])
                           /\ UNCHANGED failed_count
                      ELSE /\ translations' = Append(translations, text)
                           /\ failed_count' = failed_count + 1
    /\ UNCHANGED <<texts, tpc, batch_i, all_translations, tresult>>
    /\ UNCHANGED notTrVars

\* translator.py lines 240-243 and 177-179: _translate_individually returns
\* success, and its translations are appended to all_translations
TranslateIndividuallyReturn ==
    /\ tpc = "individual"
    /\ Len(translations) = Len(batch_texts)
    /\ LET individual_results == success_result(translations, failed_count)
       IN  all_translations' = all_translations \o individual_results.translations
    /\ batch_i' = batch_i + batch_size
    /\ tpc' = "batch"
    /\ UNCHANGED <<texts, translations, failed_count, tapi, tresult>>
    /\ UNCHANGED notTrVars

\* translator.py lines 185-188
TranslateBatchReturn ==
    /\ tpc = "batch"
    /\ batch_i >= Len(texts)
    /\ tresult' = success_result(all_translations, 0)
    /\ tpc' = "done"
    /\ UNCHANGED <<texts, batch_i, all_translations, translations, failed_count, tapi>>
    /\ UNCHANGED notTrVars

\* src/domain/translator/translator.py lines 37-94
translate_text_async(tx, api) ==
    IF tx = <<>> THEN success_result(<<>>, 0)
    ELSE IF api.kind = "error" THEN Raised("APIError")
    ELSE IF api.kind = "other" THEN success_result(tx, 0)
    ELSE IF api.count /= Len(tx) THEN success_result(tx, 0)
    ELSE success_result(ApiTranslations(tx, api.count), 0)

TranslateTextAsync ==
    /\ tpc = "async"
    /\ \E api \in ApiOutcomes(texts) :
         /\ tapi' = api
         /\ tresult' = translate_text_async(texts, api)
    /\ tpc' = "done_async"
    /\ UNCHANGED <<texts, batch_i, all_translations, translations, failed_count>>
    /\ UNCHANGED notTrVars

\* a call of _translate_batch or of translate_text_async with any input list
InitTranslation ==
    /\ deployment = "translation"
    /\ PipelineIdle
    /\ BlocksIdle
    /\ LayoutIdle
    /\ DeleteIdle
    /\ DownloadIdle
    /\ EditIdle
    /\ ProcessIdle
    /\ texts \in {TextList(n) : n \in 0 .. MaxTexts}
    /\ tpc \in {"batch", "async"}
    /\ batch_i = 0
    /\ all_translations = <<>>
    /\ translations = <<>>
    /\ failed_count = 0
    /\ tapi = NoApi
    /\ tresult = NoResult
    /\ FontIdle
    /\ PathIdle
    /\ FileServiceIdle

NextTranslation ==
    \/ TranslateBatchCall
    \/ TranslateIndividuallyCall
    \/ TranslateIndividuallyReturn
    \/ TranslateBatchReturn
    \/ TranslateTextAsync

SpecTranslation == InitTranslation /\ [][NextTranslation]_vars

\* ===================================================== the font-size fit
\* src/domain/translator/utils.py adjust_paragraph_font_size and its callers.
\* Lengths and font sizes are in tenths of a point, so that the callers'
\* fractional sizes (0.8 * box height) are exact; heights that are compared
\* with a leading (1.2 * font size) are in hundredths of a point.
Max(a, b) == IF a > b THEN a ELSE b

\* the callers: (floor, ceiling) they pass or leave to the defaults
Callers == {"process_text_regions", "build_translated_pdf"}
floor_of(caller) ==
    IF caller = "process_text_regions" THEN caller_min_font_size ELSE default_min_font_size
ceiling_of(caller) == default_max_font_size

\* processor.py lines 299-301, tasks.py line 134: max(8, height * 0.8)
initial_font_size(height) == Max(caller_min_font_size, (8 * height) \div 10)

\* Paragraph.wrap: the height the text takes when broken into lines of the
\* available width, every character half as wide as the font size and every
\* line one leading high (at least one character is put on a line)
wrap(nchars, width, st) ==
    LET per_line == Max(1, (2 * width) \div st.fontSize)
        lines == (nchars + per_line - 1) \div per_line
    IN  lines * st.leading

\* lines 78-82
RECURSIVE Shrink(_, _)
Shrink(st, a) ==
    IF wrap(a.paragraph, a.available_width, st) > 10 * a.available_height
       /\ st.fontSize > a.min_font_size
      THEN Shrink(ParagraphStyle(st.fontSize - 10), a)
      ELSE st

\* lines 85-94
RECURSIVE Grow(_, _)
Grow(st, a) ==
    IF wrap(a.paragraph, a.available_width, st) < 10 * a.available_height
       /\ st.fontSize < a.max_font_size
      THEN LET bigger == ParagraphStyle(st.fontSize + 10)
           IN  IF wrap(a.paragraph, a.available_width, bigger) > 10 * a.available_height
                 THEN st
                 ELSE Grow(bigger, a)
      ELSE st

\* lines 53-96: the style the function leaves behind
adjust_paragraph_font_size(st, a) == Grow(Shrink(st, a), a)

AdjustParagraphFontSize ==
    /\ apc = "call"
    /\ style' = adjust_paragraph_font_size(style, fit)
    /\ apc' = "returned"
    /\ UNCHANGED fit
    /\ UNCHANGED notFontVars

\* a caller draws a text region: a text of some length in a box, with the
\* initial font size the caller computes from the box height
InitFont ==
    /\ deployment = "font"
    /\ PipelineIdle
    /\ BlocksIdle
    /\ LayoutIdle
    /\ DeleteIdle
    /\ DownloadIdle
    /\ EditIdle
    /\ ProcessIdle
    /\ TranslationIdle
    /\ PathIdle
    /\ FileServiceIdle
    /\ \E caller \in Callers, nchars \in 1 .. MaxChars, width \in BoxWidths,
          height \in BoxHeights :
         /\ fit = [caller |-> caller, paragraph |-> nchars, available_width |-> width,
                   available_height |-> height, min_font_size |-> floor_of(caller),
                   max_font_size |-> ceiling_of(caller)]
         /\ style = ParagraphStyle(initial_font_size(height))
    /\ apc = "call"

NextFont == AdjustParagraphFontSize

SpecFont == InitFont /\ [][NextFont]_vars

\* ================================================== the path-traversal guard
\* src/shared/utils/file_utils.py clean_filename, get_safe_path.  A string (a
\* filename, the text of a path) is a sequence of characters.
StringsUpTo(n) == UNION {[1 .. k -> FilenameChars] : k \in 0 .. n}

\* c.isalnum() or c in "._-", for the characters of FilenameChars
KeptChar(c) == c \in AlnumChars \cup {".", "_", "-"}

\* lines 95-96: spaces become "_", then every other character is dropped
RECURSIVE CleanChars(_)
CleanChars(str) ==
    IF str = <<>> THEN <<>>
    ELSE LET c == IF Head(str) = " " THEN "_" ELSE Head(str)
         IN  IF KeptChar(c) THEN <<c>> \o CleanChars(Tail(str)) ELSE CleanChars(Tail(str))

clean_filename_verbatim(name) == IF name = <<>> THEN <<"f">> ELSE name

\* lines 84-102 (the name "file" of line 100 is written <<"f">>)
clean_filename(name) ==
    IF CleanChars(name) = <<>> THEN <<"f">> ELSE CleanChars(name)

\* the components of a path text, split at "/"
RECURSIVE SplitFrom(_, _, _)
SplitFrom(str, cur, acc) ==
    IF str = <<>> THEN Append(acc, cur)
    ELSE IF Head(str) = "/" THEN SplitFrom(Tail(str), <<>>, Append(acc, cur))
    ELSE SplitFrom(Tail(str), Append(cur, Head(str)), acc)
Split(str) == SplitFrom(str, <<>>, <<>>)

\* Path.resolve() where no symbolic link is involved: empty and "."
\* components are dropped, ".." removes the component before it (the root is
\* its own parent)
RECURSIVE Normalise(_, _)
Normalise(parts, acc) ==
    IF parts = <<>> THEN acc
    ELSE IF Head(parts) \in {<<>>, <<".">>} THEN Normalise(Tail(parts), acc)
    ELSE IF Head(parts) = <<".", ".">>
      THEN Normalise(Tail(parts), IF acc = <<>> THEN acc ELSE SubSeq(acc, 1, Len(acc) - 1))
    ELSE Normalise(Tail(parts), Append(acc, Head(parts)))

\* str(path) of an absolute path given by its components
RECURSIVE PathText(_)
PathText(parts) ==
    IF parts = <<>> THEN <<>> ELSE <<"/">> \o Head(parts) \o PathText(Tail(parts))
str(parts) == IF parts = <<>> THEN <<"/">> ELSE PathText(parts)

\* base_path / name, resolved: an absolute name replaces the base
resolve_joined(base, name) ==
    IF name /= <<>> /\ Head(name) = "/"
      THEN Normalise(Split(name), <<>>)
      ELSE Normalise(Split(base) \o Split(name), <<>>)
resolve(base) == Normalise(Split(base), <<>>)

\* str.startswith
startswith(s, prefix) ==
    Len(prefix) <= Len(s) /\ SubSeq(s, 1, Len(prefix)) = prefix

Returned(path) == [raised |-> None, path |-> path]
Raises(code) == [raised |-> code, path |-> <<>>]

\* lines 127-167
get_safe_path(base, name) ==
    LET safe_filename == clean_filename(name)
        resolved_path == resolve_joined(base, safe_filename)
        base_resolved == resolve(base)
    IN  IF ~startswith(str(resolved_path), str(base_resolved))
          THEN Raises("PATH_TRAVERSAL_DETECTED")
          ELSE Returned(resolved_path)

GetSafePath ==
    /\ gpc = "call"
    /\ gresult' = get_safe_path(base_path, filename)
    /\ gpc' = "returned"
    /\ UNCHANGED <<base_path, filename>>
    /\ UNCHANGED notPathVars

InitPath ==
    /\ deployment = "path"
    /\ PipelineIdle
    /\ BlocksIdle
    /\ LayoutIdle
    /\ DeleteIdle
    /\ DownloadIdle
    /\ EditIdle
    /\ ProcessIdle
    /\ TranslationIdle
    /\ FontIdle
    /\ base_path \in BasePaths
    /\ filename \in StringsUpTo(MaxNameLen)
    /\ gpc = "call"
    /\ gresult = Returned(<<>>)
    /\ FileServiceIdle

NextPath == GetSafePath

SpecPath == InitPath /\ [][NextPath]_vars

\* ====================================================== the local file service
\* src/backend/services/file_service.py.  json.dump / json.load are modelled
\* on the text of the file, a sequence of characters; a key of an object is
\* written as one character.
\* the values json handles: integers, strings, lists and objects
JInt(n) == [t |-> "int", v |-> n]
JStr(s) == [t |-> "str", v |-> s]
JList(items) == [t |-> "list", v |-> items]
JDict(members) == [t |-> "dict", v |-> members]
Member(key, value) == [k |-> key, val |-> value]

\* TranslationData: { pages: [{ page_number, translations: [{ id,
\* original_text, translated_text }] }] }
TranslationEntry(id, original, translated) ==
    JDict(<<Member(<<"id">>, JInt(id)), Member(<<"original_text">>, JStr(original)),
            Member(<<"translated_text">>, JStr(translated))>>)
PageEntry(n, trs) ==
    JDict(<<Member(<<"page_number">>, JInt(n)), Member(<<"translations">>, JList(trs))>>)
TranslationDataOf(pages) == JDict(<<Member(<<"pages">>, JList(pages))>>)

DataTexts == UNION {[1 .. k -> TextChars] : k \in 0 .. MaxTextLen}

\* the valid TranslationData values drawn: no page, a page without
\* translations, a page with one translation of any text, and two pages of
\* which the first has two translations
TranslationDatas ==
    {TranslationDataOf(<<>>), TranslationDataOf(<<PageEntry(1, <<>>)>>),
     TranslationDataOf(<<PageEntry(1, <<TranslationEntry(0, <<"a">>, <<"a">>),
                                        TranslationEntry(1, <<>>, <<"\"">>)>>),
                         PageEntry(12, <<>>)>>)}
    \cup {TranslationDataOf(<<PageEntry(1, <<TranslationEntry(0, <<"a">>, tx)>>)>>) :
            tx \in DataTexts}

Digits == <<"0", "1", "2", "3", "4", "5", "6", "7", "8", "9">>
DigitChars == {Digits[k] : k \in 1 .. Len(Digits)}
DigitValue(c) == (CHOOSE k \in 1 .. Len(Digits) : Digits[k] = c) - 1

\* the decimal text of a natural number
RECURSIVE IntText(_)
IntText(n) == IF n < 10 THEN <<Digits[n + 1]>> ELSE IntText(n \div 10) \o <<Digits[(n % 10) + 1]>>

\* json.dump, ensure_ascii=False: quotes, backslashes and newlines of a string
\* are written as escape sequences
RECURSIVE Escape(_)
Escape(s) ==
    IF s = <<>> THEN <<>>
    ELSE (CASE Head(s) = "\"" -> <<"\\", "\"">>
            [] Head(s) = "\\" -> <<"\\", "\\">>
            [] Head(s) = "\n" -> <<"\\", "n">>
            [] OTHER -> <<Head(s)>>) \o Escape(Tail(s))

RECURSIVE json_dump(_)
RECURSIVE DumpItems(_)
RECURSIVE DumpMembers(_)
DumpItems(items) ==
    IF Len(items) = 1 THEN json_dump(items[1])
    ELSE json_dump(Head(items)) \o <<",", "\n">> \o DumpItems(Tail(items))
DumpMembers(members) ==
    LET first == <<"\"">> \o Escape(Head(members).k) \o <<"\"", ":", " ">>
                 \o json_dump(Head(members).val)
    IN  IF Len(members) = 1 THEN first
        ELSE first \o <<",", "\n">> \o DumpMembers(Tail(members))
\* file_service.py line 168: json.dump(data, f, ensure_ascii=False, indent=2)
json_dump(j) ==
    CASE j.t = "int" -> IntText(j.v)
      [] j.t = "str" -> <<"\"">> \o Escape(j.v) \o <<"\"">>
      [] j.t = "list" ->
           IF j.v = <<>> THEN <<"[", "]">>
           ELSE <<"[", "\n">> \o DumpItems(j.v) \o <<"\n", "]">>
      [] j.t = "dict" ->
           IF j.v = <<>> THEN <<"{", "}">>
           ELSE <<"{", "\n">> \o DumpMembers(j.v) \o <<"\n", "}">>

\* json.load: what was read (ok), or a JSONDecodeError
Parsed(value, rest) == [ok |-> TRUE, v |-> value, rest |-> rest]
DecodeError == [ok |-> FALSE, v |-> JInt(0), rest |-> <<>>]

RECURSIVE SkipWs(_)
SkipWs(s) == IF s /= <<>> /\ Head(s) \in {" ", "\n"} THEN SkipWs(Tail(s)) ELSE s

unescape_kept(c) == <<"\\", c>>
\* the character an escape sequence stands for
unescape(c) == IF c = "n" THEN <<"\n">> ELSE <<c>>

RECURSIVE ParseString(_, _)
ParseString(s, acc) ==
    IF s = <<>> THEN DecodeError
    ELSE IF Head(s) = "\"" THEN Parsed(JStr(acc), Tail(s))
    ELSE IF Head(s) = "\\"
      THEN IF Len(s) < 2 THEN DecodeError
           ELSE ParseString(Tail(Tail(s)), acc \o unescape(s[2]))
    ELSE ParseString(Tail(s), Append(acc, Head(s)))

RECURSIVE ParseInt(_, _)
ParseInt(s, n) ==
    IF s /= <<>> /\ Head(s) \in DigitChars
      THEN ParseInt(Tail(s), 10 * n + DigitValue(Head(s)))
      ELSE Parsed(JInt(n), s)

RECURSIVE ParseValue(_)
RECURSIVE ParseList(_, _)
RECURSIVE ParseDict(_, _)
\* the items of a list, s being the text after "[" or after a ","
ParseList(s, acc) ==
    IF s = <<>> THEN DecodeError
    ELSE IF Head(s) = "]" /\ acc = <<>> THEN Parsed(JList(acc), Tail(s))
    ELSE LET item == ParseValue(s)
             after == SkipWs(item.rest)
         IN  IF ~item.ok \/ after = <<>> THEN DecodeError
             ELSE IF Head(after) = ","
               THEN ParseList(SkipWs(Tail(after)), Append(acc, item.v))
             ELSE IF Head(after) = "]"
               THEN Parsed(JList(Append(acc, item.v)), Tail(after))
             ELSE DecodeError
\* the members of an object, s being the text after "{" or after a ","
ParseDict(s, acc) ==
    IF s = <<>> THEN DecodeError
    ELSE IF Head(s) = "}" /\ acc = <<>> THEN Parsed(JDict(acc), Tail(s))
    ELSE IF Head(s) /= "\"" THEN DecodeError
    ELSE LET key == ParseString(Tail(s), <<>>)
             colon == SkipWs(key.rest)
         IN  IF ~key.ok \/ colon = <<>> \/ Head(colon) /= ":" THEN DecodeError
             ELSE LET value == ParseValue(Tail(colon))
                      after == SkipWs(value.rest)
                      member == Member(key.v.v, value.v)
                  IN  IF ~value.ok \/ after = <<>> THEN DecodeError
                      ELSE IF Head(after) = ","
                        THEN ParseDict(SkipWs(Tail(after)), Append(acc, member))
                      ELSE IF Head(after) = "}"
                        THEN Parsed(JDict(Append(acc, member)), Tail(after))
                      ELSE DecodeError
ParseValue(s) ==
    LET s1 == SkipWs(s)
    IN  IF s1 = <<>> THEN DecodeError
        ELSE IF Head(s1) = "\"" THEN ParseString(Tail(s1), <<>>)
        ELSE IF Head(s1) \in DigitChars THEN ParseInt(s1, 0)
        ELSE IF Head(s1) = "[" THEN ParseList(SkipWs(Tail(s1)), <<>>)
        ELSE IF Head(s1) = "{" THEN ParseDict(SkipWs(Tail(s1)), <<>>)
        ELSE DecodeError

\* file_service.py line 140: json.load(f), nothing but whitespace may follow
json_load(text) ==
    LET r == ParseValue(text)
    IN  IF r.ok /\ SkipWs(r.rest) = <<>> THEN r ELSE DecodeError

\* lines 103-114
get_translation_data_path(task_id) == <<task_id, "_translation_data.json">>

LastOp(op, task_id, data, raised, value) ==
    [op |-> op, task_id |-> task_id, data |-> data, raised |-> raised, value |-> value]

\* lines 149-177; ok is whether the file could be opened and written
SaveTranslationData ==
    /\ fs_pc = "translation_data"
    /\ \E task_id \in FsTaskIds, data \in TranslationDatas, ok \in BOOLEAN :
         LET data_path == get_translation_data_path(task_id)
         IN  IF ok
               THEN /\ files' = (data_path :> json_dump(data)) @@ files
                    /\ fs_last' = LastOp("save", task_id, data, None, JInt(0))
               ELSE /\ UNCHANGED files
                    /\ fs_last' = LastOp("save", task_id, data,
                                         "TRANSLATION_DATA_SAVE_FAILED", JInt(0))
    /\ UNCHANGED <<fs_pc, uploads, up_last>>
    /\ UNCHANGED notFsVars

\* lines 116-147
LoadTranslationData ==
    /\ fs_pc = "translation_data"
    /\ \E task_id \in FsTaskIds :
         LET data_path == get_translation_data_path(task_id)
         IN  fs_last' =
               IF data_path \notin DOMAIN files
                 THEN LastOp("load", task_id, JInt(0), "TRANSLATION_DATA_NOT_FOUND", JInt(0))
               ELSE IF ~json_load(files[data_path]).ok
                 THEN LastOp("load", task_id, JInt(0), "TRANSLATION_DATA_LOAD_FAILED", JInt(0))
               ELSE LastOp("load", task_id, JInt(0), None, json_load(files[data_path]).v)
    /\ UNCHANGED <<fs_pc, files, uploads, up_last>>
    /\ UNCHANGED notFsVars

InitTranslationData ==
    /\ deployment = "file_service"
    /\ PipelineIdle
    /\ BlocksIdle
    /\ LayoutIdle
    /\ DeleteIdle
    /\ DownloadIdle
    /\ EditIdle
    /\ ProcessIdle
    /\ TranslationIdle
    /\ FontIdle
    /\ PathIdle
    /\ fs_pc = "translation_data"
    /\ files = <<>>
    /\ uploads = <<>>
    /\ fs_last = NoOp
    /\ up_last = NoUpload

NextTranslationData ==
    \/ SaveTranslationData
    \/ LoadTranslationData

SpecTranslationData == InitTranslationData /\ [][NextTranslationData]_vars

\* ------------------------------------------- file service: save_uploaded_file
\* the last component of a path text
RECURSIVE NameOf(_)
NameOf(txt) ==
    IF \E k \in 1 .. Len(txt) : txt[k] = "/"
      THEN NameOf(SubSeq(txt, (CHOOSE k \in 1 .. Len(txt) : txt[k] = "/") + 1, Len(txt)))
      ELSE txt

\* the position of the last "." of a name that starts a suffix: not the
\* first character and not the last one; 0 when there is none
SuffixAt(name) ==
    LET dots == {k \in 1 .. Len(name) : name[k] = "."}
        last == CHOOSE k \in dots : \A j \in dots : j <= k
    IN  IF dots = {} THEN 0
        ELSE IF last > 1 /\ last < Len(name) THEN last ELSE 0

\* Path(filename).suffix and Path(filename).stem
suffix(txt) ==
    LET name == NameOf(txt)
    IN  IF SuffixAt(name) = 0 THEN <<>> ELSE SubSeq(name, SuffixAt(name), Len(name))
stem(txt) ==
    LET name == NameOf(txt)
    IN  IF SuffixAt(name) = 0 THEN name ELSE SubSeq(name, 1, SuffixAt(name) - 1)

\* txt.lower()
LowerChar(c) ==
    CASE c = "T" -> "t" [] c = "P" -> "p" [] c = "D" -> "d" [] c = "F" -> "f" [] OTHER -> c
lower(s) == [k \in 1 .. Len(s) |-> LowerChar(s[k])]

\* file_utils.py lines 36-60
get_file_extension(name) == lower(suffix(name))
is_valid_pdf(name) == get_file_extension(name) \in SUPPORTED_FILE_EXTENSIONS

validate_file_size_unlimited(file_size) == None
\* file_utils.py lines 105-124: the code raised, or None
validate_file_size(file_size) ==
    IF file_size > MAX_FILE_SIZE_MB * 1024 * 1024 THEN "FILE_TOO_LARGE" ELSE None

\* file_utils.py lines 63-81, with suffix = task_id
generate_unique_filename(original, task_id, unique_id) ==
    stem(original) \o <<"_">> \o task_id \o <<"_">> \o unique_id \o suffix(original)

Uploaded(name, size, raised, path) ==
    [filename |-> name, size |-> size, raised |-> raised, path |-> path]

\* file_service.py lines 51-101; io is how the write goes: "ok", the file
\* cannot be opened, or the write fails after the file was created
SaveUploadedFile ==
    /\ fs_pc = "upload"
    /\ \E name \in UploadNames, size \in UploadSizes, unique_id \in UniqueIds,
          io \in {"ok", "open_fails", "write_fails"} :
         IF ~is_valid_pdf(name)
           THEN /\ up_last' = Uploaded(name, size, "INVALID_FILE_TYPE", <<>>)
                /\ UNCHANGED uploads
         ELSE IF validate_file_size(size) /= None
           THEN /\ up_last' = Uploaded(name, size, validate_file_size(size), <<>>)
                /\ UNCHANGED uploads
         ELSE LET safe == get_safe_path(upload_dir,
                              generate_unique_filename(name, UploadTaskId, unique_id))
              IN  IF safe.raised /= None
                    THEN /\ up_last' = Uploaded(name, size, safe.raised, <<>>)
                         /\ UNCHANGED uploads
                  ELSE IF io = "ok"
                    THEN /\ uploads' = (safe.path :> size) @@ uploads
                         /\ up_last' = Uploaded(name, size, None, safe.path)
                  ELSE IF io = "open_fails"
                    THEN /\ UNCHANGED uploads
                         /\ up_last' = Uploaded(name, size, "FILE_SAVE_FAILED", <<>>)
                  ELSE /\ uploads' = (safe.path :> 0) @@ uploads
                       /\ up_last' = Uploaded(name, size, "FILE_SAVE_FAILED", <<>>)
    /\ UNCHANGED <<fs_pc, files, fs_last>>
    /\ UNCHANGED notFsVars

InitUpload ==
    /\ deployment = "file_service"
    /\ PipelineIdle
    /\ BlocksIdle
    /\ LayoutIdle
    /\ DeleteIdle
    /\ DownloadIdle
    /\ EditIdle
    /\ ProcessIdle
    /\ TranslationIdle
    /\ FontIdle
    /\ PathIdle
    /\ fs_pc = "upload"
    /\ files = <<>>
    /\ uploads = <<>>
    /\ fs_last = NoOp
    /\ up_last = NoUpload

NextUpload == SaveUploadedFile

SpecUpload == InitUpload /\ [][NextUpload]_vars

\* ------------------------------------------------------------ specification
\* ------------------------------------ monolithic: the download endpoints
\* main.py lines 92-112: follow result_task_id from the orchestrator
get_final_task_result ==
    IF cstate[OrchId] = "SUCCESS" /\ "result_task_id" \in cinfo[OrchId].keys
      THEN cinfo[OrchId].result_task_id
      ELSE OrchId

\* main.py lines 256-300: GET /pdfs/download/translated/{id}, the HTTP status
get_translated_pdf ==
    LET final_task == get_final_task_result
        info == cinfo[final_task]
        translated_key == IF "translated_key" \in info.keys THEN info.translated_key
                          ELSE TranslatedKey
    IN  IF cstate[final_task] # "SUCCESS" THEN 404
        ELSE IF ~key_exists(translated_key) THEN 404
        ELSE 307

\* main.py lines 333-354: GET /pdfs/translation-data/{id}
get_translation_data == IF ~key_exists(TranslationKey) THEN 404 ELSE 200

\* main.py lines 356-377: GET /pdfs/translated/{id}/position
get_position_data == IF ~key_exists(PositionKey) THEN 404 ELSE 200

\* ============================ core/orchestrator.py: process_translation
\* The six stages, in the order of lines 96-158: analyze_document,
\* extract_text_from_pages, translate_text_blocks, prepare_font_for_language,
\* reconstruct_pdf, _save_translation_data.
Stages == 1 .. TotalSteps

\* error codes a stage puts in the failed TaskResult it returns
StageErrorCodes(k) ==
    CASE k = 1 -> {"FILE_NOT_FOUND", "DOCUMENT_ANALYSIS_FAILED"}
      [] k = 2 -> {"TEXT_EXTRACTION_FAILED"}
      [] k = 3 -> {"TRANSLATION_FAILED"}
      [] k = 4 -> {"FONT_NOT_AVAILABLE", "FONT_PREPARATION_FAILED"}
      [] k = 5 -> {"PDF_RECONSTRUCTION_FAILED"}
      [] OTHER -> {"TRANSLATION_DATA_SAVE_FAILED"}

\* shared/models/task.py TaskResult; origin names the call that built the
\* object (a stage number, or TotalSteps + 1 for process_translation itself)
StageSuccess(k) == [origin |-> k, success |-> TRUE, raised |-> FALSE, error_code |-> None]
StageError(k, code) ==
    [origin |-> k, success |-> FALSE, raised |-> FALSE, error_code |-> code]
StageRaised(k) == [origin |-> k, success |-> FALSE, raised |-> TRUE, error_code |-> None]

\* what a stage call can do: return a TaskResult, or raise.  Stage 6 catches
\* every exception itself (lines 311-315).
StageOutcomes(k) ==
    {StageSuccess(k)} \cup {StageError(k, c) : c \in StageErrorCodes(k)}
      \cup (IF k < TotalSteps THEN {StageRaised(k)} ELSE {})

\* lines 160-168 and 170-175: the results process_translation builds itself
ProcessSuccess == StageSuccess(TotalSteps + 1)
ProcessError == StageError(TotalSteps + 1, "TRANSLATION_PROCESSING_FAILED")

\* lines 66-71: the callback is called; an exception of it is logged only
_update_progress(k, callbackRaises) ==
    Append(progress, [step |-> k, total |-> TotalSteps, delivered |-> ~callbackRaises])

\* one stage of process_translation: progress update, the stage call, and the
\* check of its result
RunStageWrapping(k) ==
    /\ deployment = "orchestrator"
    /\ wpc = "running"
    /\ Len(stage_results) = k - 1
    /\ \E callbackRaises \in BOOLEAN, r \in StageOutcomes(k) :
         /\ progress' = _update_progress(k, callbackRaises)
         /\ stage_results' = Append(stage_results, r)
         /\ IF r.raised \/ ~r.success
              THEN /\ process_result' = ProcessError
                   /\ wpc' = "returned"
              ELSE IF k = TotalSteps
                     THEN /\ process_result' = ProcessSuccess
                          /\ wpc' = "returned"
                     ELSE UNCHANGED <<process_result, wpc>>
    /\ UNCHANGED notProcessVars

RunStage(k) ==
    /\ deployment = "orchestrator"
    /\ wpc = "running"
    /\ Len(stage_results) = k - 1
    /\ \E callbackRaises \in BOOLEAN, r \in StageOutcomes(k) :
         /\ progress' = _update_progress(k, callbackRaises)
         /\ stage_results' = Append(stage_results, r)
         /\ IF r.raised
              THEN /\ process_result' = ProcessError
                   /\ wpc' = "returned"
              ELSE IF ~r.success
                     THEN /\ process_result' = r
                          /\ wpc' = "returned"
                     ELSE IF k = TotalSteps
                            THEN /\ process_result' = ProcessSuccess
                                 /\ wpc' = "returned"
                            ELSE UNCHANGED <<process_result, wpc>>
    /\ UNCHANGED notProcessVars

InitProcess ==
    /\ deployment = "orchestrator"
    /\ PipelineIdle
    /\ BlocksIdle
    /\ LayoutIdle
    /\ DeleteIdle
    /\ DownloadIdle
    /\ EditIdle
    /\ TranslationIdle
    /\ FontIdle
    /\ PathIdle
    /\ FileServiceIdle
    /\ wpc = "running"
    /\ stage_results = <<>>
    /\ progress = <<>>
    /\ process_result = NoTaskResult

NextProcess == \E k \in Stages : RunStage(k)

SpecProcess == InitProcess /\ [][NextProcess]_vars

\* ================== PUT /pdfs/translation-data/{id} and the regeneration
\* A page result with one text region (id 0) and one image region; the text
\* <<p, v>> stands for the text of page p in version v (0: as translated, r:
\* as edited by request r).
EditPageOk(p) ==
    [page_number |-> p, text_regions |-> <<[id |-> 0, translated_text |-> <<p, 0>>]>>,
     image_regions |-> <<"image">>, error |-> None]

\* the sorted results lists finalize_task / combine_pages_task can be given
RECURSIVE ResultLists(_)
ResultLists(n) ==
    IF n = 0 THEN {<<>>}
    ELSE {Append(rl, r) : rl \in ResultLists(n - 1),
                          r \in {EditPageOk(n - 1), PagePlaceholder(n - 1, ErrMsg)}}

\* tasks.py lines 356-371 / tasks_original.py lines 191-205: translation_data
RECURSIVE translation_data_pages(_)
translation_data_pages(rl) ==
    IF rl = <<>> THEN <<>>
    ELSE IF Truthy(Head(rl).error) THEN translation_data_pages(Tail(rl))
    ELSE <<[page_number |-> Head(rl).page_number, translations |-> Head(rl).text_regions]>>
         \o translation_data_pages(Tail(rl))

\* tasks.py lines 373-389 / tasks_original.py lines 208-224: position_data
RECURSIVE position_data_pages(_)
position_data_pages(rl) ==
    IF rl = <<>> THEN <<>>
    ELSE IF Truthy(Head(rl).error) THEN position_data_pages(Tail(rl))
    ELSE <<[page_number |-> Head(rl).page_number,
            regions |-> [k \in 1 .. Len(Head(rl).text_regions) |->
                           [id |-> Head(rl).text_regions[k].id]],
            image_regions |-> Head(rl).image_regions]>>
         \o position_data_pages(Tail(rl))

\* the request bodies: any pages of the document, in any order, each with its
\* one translation rewritten by request r
RECURSIVE PageSelections(_)
PageSelections(S) ==
    {<<>>} \cup UNION {{<<p>> \o q : q \in PageSelections(S \ {p})} : p \in S}

EditedPage(p, r) ==
    [page_number |-> p, translations |-> <<[id |-> 0, translated_text |-> <<p, r>>]>>]

Edits(r) ==
    {[k \in 1 .. Len(sel) |-> EditedPage(sel[k], r)] : sel \in PageSelections(PageIdx)}

\* next((x for x in items if x[key] == value), None): <<x>> when an item
\* is found, <<>> for None
RECURSIVE FirstWith(_, _, _)
FirstWith(items, key, value) ==
    IF items = <<>> THEN <<>>
    ELSE IF Head(items)[key] = value THEN <<Head(items)>>
    ELSE FirstWith(Tail(items), key, value)

\* tasks.py lines 458-468: the text regions of one page, in the order of its
\* translations; a translation without a region position is left out
RECURSIVE TextRegionsOf(_, _)
TextRegionsOf(trans, page_pos) ==
    IF trans = <<>> THEN <<>>
    ELSE (IF FirstWith(page_pos.regions, "id", Head(trans).id) = <<>>
            THEN <<>>
            ELSE <<[id |-> Head(trans).id,
                    translated_text |-> Head(trans).translated_text]>>)
         \o TextRegionsOf(Tail(trans), page_pos)

\* tasks.py lines 449-479: results_list is built from translation_data.pages;
\* page_pos is None for a page position_data does not hold, and
\* page_pos.get(...) then raises as soon as the page has a translation
RegenerationRaises(pages, position_data) ==
    \E k \in 1 .. Len(pages) :
        /\ FirstWith(position_data.pages, "page_number", pages[k].page_number) = <<>>
        /\ pages[k].translations # <<>>

RECURSIVE results_list_of(_, _)
results_list_of(pages, position_data) ==
    IF pages = <<>> THEN <<>>
    ELSE LET page == Head(pages)
             page_pos == FirstWith(position_data.pages, "page_number", page.page_number)
         IN  <<[page_number |-> page.page_number,
                text_regions |-> IF page_pos = <<>> THEN <<>>
                                 ELSE TextRegionsOf(page.translations, page_pos[1]),
                image_regions |-> IF page_pos = <<>> THEN <<>>
                                  ELSE page_pos[1].image_regions,
                error |-> None]>>
             \o results_list_of(Tail(pages), position_data)

Regenerated(pages) == [ok |-> TRUE, pdf |-> pages]
RegenerationError == [ok |-> FALSE, pdf |-> <<>>]

\* tasks.py lines 432-499
regenerate_pdf_s3_task(translation_data, position_data) ==
    IF RegenerationRaises(translation_data, position_data)
      THEN RegenerationError
      ELSE Regenerated(build_translated_pdf(results_list_of(translation_data, position_data)))

\* processor.py lines 333-349: translation_lookup[page_num][id], a later
\* entry with the same key replacing an earlier one
RECURSIVE LookupIn(_, _, _)
LookupIn(pages, page_num, id) ==
    IF pages = <<>> THEN <<>>
    ELSE LET later == LookupIn(Tail(pages), page_num, id)
             here == IF Head(pages).page_number = page_num
                       THEN FirstWith(Head(pages).translations, "id", id)
                       ELSE <<>>
         IN  IF later # <<>> THEN later ELSE here

\* processor.py lines 382-411: the regions of one position page that have a
\* translation are drawn with its translated_text
RECURSIVE DrawnRegions(_, _, _)
DrawnRegions(regions, page_num, translation_data) ==
    IF regions = <<>> THEN <<>>
    ELSE (IF LookupIn(translation_data, page_num, Head(regions).id) = <<>>
            THEN <<>>
            ELSE <<[id |-> Head(regions).id,
                    translated_text |->
                      LookupIn(translation_data, page_num, Head(regions).id)[1].translated_text]>>)
         \o DrawnRegions(Tail(regions), page_num, translation_data)

\* processor.py lines 318-428: one page per entry of position_data["pages"];
\* the saved images of the page are found by page_number in
\* position_data["images"], whose absence raises on the first page
regenerate_pdf(translation_data, position_data) ==
    IF position_data.pages # <<>> /\ ~position_data.has_images
      THEN RegenerationError
      ELSE Regenerated([k \in 1 .. Len(position_data.pages) |->
             [page_number |-> position_data.pages[k].page_number,
              raster |-> position_data.pages[k].page_number,
              text_regions |-> DrawnRegions(position_data.pages[k].regions,
                                            position_data.pages[k].page_number,
                                            translation_data),
              image_regions |-> position_data.pages[k].image_regions]])

\* main.py lines 385-396 (main_original.py lines 303-318): read the position
\* data, overwrite the stored translation data, enqueue the regeneration
UpdateTranslationDataUpload(r) ==
    /\ deployment = "edit"
    /\ req[r].pc = "idle"
    /\ \E body \in Edits(r) :
         /\ e_tdata' = body
         /\ req' = [req EXCEPT ![r] = [NoRequest EXCEPT !.pc = "sent", !.body = body,
                                                        !.position_data = e_pdata]]
    /\ UNCHANGED <<e_impl, e_pdata, e_pdf, regen_last>>
    /\ UNCHANGED notEditVars

\* the worker runs the regeneration task of request r and, when it did not
\* fail, replaces the stored translated PDF
RegeneratePdfTask(r) ==
    /\ deployment = "edit"
    /\ req[r].pc = "sent"
    /\ LET result == IF e_impl = "s3"
                       THEN regenerate_pdf_s3_task(req[r].body, req[r].position_data)
                       ELSE regenerate_pdf(req[r].body, req[r].position_data)
       IN  /\ e_pdf' = IF result.ok THEN result.pdf ELSE e_pdf
           /\ req' = [req EXCEPT ![r].pc = "regenerated", ![r].error = ~result.ok]
           /\ regen_last' = [req |-> r, ok |-> result.ok, translation_data |-> req[r].body]
    /\ UNCHANGED <<e_impl, e_tdata, e_pdata>>
    /\ UNCHANGED notEditVars

\* main.py lines 397-404: result.get, then 500 on "error" or 200
UpdateTranslationDataReturn(r) ==
    /\ deployment = "edit"
    /\ req[r].pc = "regenerated"
    /\ req' = [req EXCEPT ![r].pc = "done", ![r].code = IF req[r].error THEN 500 ELSE 200]
    /\ UNCHANGED <<e_impl, e_tdata, e_pdata, e_pdf, regen_last>>
    /\ UNCHANGED notEditVars

\* a finished document: what finalize_task (s3) or the local pipeline stored
InitEdit ==
    /\ deployment = "edit"
    /\ PipelineIdle
    /\ BlocksIdle
    /\ LayoutIdle
    /\ DeleteIdle
    /\ DownloadIdle
    /\ TranslationIdle
    /\ FontIdle
    /\ PathIdle
    /\ FileServiceIdle
    /\ ProcessIdle
    /\ e_impl \in {"s3", "local"}
    /\ \E rl \in ResultLists(MaxPages), images \in BOOLEAN :
         /\ e_tdata = translation_data_pages(rl)
         /\ e_pdata = [pages |-> position_data_pages(rl),
                       has_images |-> e_impl = "local" /\ images]
         /\ e_pdf = build_translated_pdf(rl)
         /\ e_impl = "s3" => ~images
    /\ req = [r \in Requests |-> NoRequest]
    /\ regen_last = NoRegeneration

NextEdit ==
    \/ \E r \in Requests : UpdateTranslationDataUpload(r)
    \/ \E r \in Requests : RegeneratePdfTask(r)
    \/ \E r \in Requests : UpdateTranslationDataReturn(r)

SpecEdit == InitEdit /\ [][NextEdit]_vars

\* ================== infrastructure/storage/s3.py (worker): download_bytes
\* What the storage can do to one pass of the retry loop:
\*   first    - attempt 0 only: the get_object call with ChecksumMode is
\*              "ok" or "rejected" (then the plain get_object is made)
\*   get      - the get_object call that counts: "ok", "client_error" or
\*              "other_error"
\*   read     - obj["Body"].read(): "ok", "checksum" (FlexibleChecksumError),
\*              "other_error", or "none" when there is no object to read
\*   bypass   - the raw re-read after a checksum failure: "ok", "failed", or
\*              "none" when it is not tried
AttemptOutcomes(attempt) ==
    {o \in [first : {"none", "ok", "rejected"},
            get : {"ok", "client_error", "other_error"},
            read : {"none", "ok", "checksum", "other_error"},
            bypass : {"none", "ok", "failed"}] :
        /\ (attempt = 0) = (o.first # "none")
        /\ o.first = "ok" => o.get = "ok"
        /\ (o.get = "ok") = (o.read # "none")
        /\ (o.read = "checksum") = (o.bypass # "none")}

\* lines 99-101: the validated read returned the data
ReadSucceeded(o) == o.read = "ok"
\* lines 111-116: the raw stream of a second get_object was read
BypassSucceeded(o) == o.bypass = "ok"

\* lines 103-105, 117-127: last_exception after a failed pass
last_exception_of(o, attempt) ==
    CASE o.get = "client_error" -> [kind |-> "ClientError", attempt |-> attempt]
      [] o.get = "other_error" -> [kind |-> "Exception", attempt |-> attempt]
      [] o.read = "other_error" -> [kind |-> "Exception", attempt |-> attempt]
      [] OTHER -> [kind |-> "bypass_error", attempt |-> attempt]

\* line 131, in tenths of a second
wait_time_constant(attempt) == 5
wait_time(attempt) == (attempt + 1) * 5

\* one pass of the loop "for attempt in range(max_retries)", lines 78-133,
\* and, after the last pass, the raise of line 137
DownloadAttempt ==
    /\ deployment = "download"
    /\ d_pc = "running"
    /\ LET attempt == Len(d_attempts)
       IN  \E o \in AttemptOutcomes(attempt) :
             /\ d_attempts' = Append(d_attempts, o)
             /\ IF ReadSucceeded(o) \/ BypassSucceeded(o)
                  THEN /\ d_result' = [outcome |-> "returned",
                                       bypassed |-> BypassSucceeded(o),
                                       exception |-> NoException]
                       /\ d_pc' = "returned"
                       /\ d_waits' = d_waits
                  ELSE IF attempt < max_retries - 1
                         THEN /\ d_waits' = Append(d_waits, wait_time(attempt))
                              /\ d_result' = [d_result EXCEPT
                                                !.exception = last_exception_of(o, attempt)]
                              /\ d_pc' = d_pc
                         ELSE /\ d_result' = [outcome |-> "raised", bypassed |-> FALSE,
                                              exception |-> last_exception_of(o, attempt)]
                              /\ d_pc' = "raised"
                              /\ d_waits' = d_waits
    /\ UNCHANGED notDownloadVars

InitDownload ==
    /\ deployment = "download"
    /\ PipelineIdle
    /\ BlocksIdle
    /\ LayoutIdle
    /\ DeleteIdle
    /\ TranslationIdle
    /\ FontIdle
    /\ PathIdle
    /\ FileServiceIdle
    /\ ProcessIdle
    /\ EditIdle
    /\ d_pc = "running"
    /\ d_attempts = <<>>
    /\ d_waits = <<>>
    /\ d_result = NoDownload

NextDownload == DownloadAttempt

SpecDownload == InitDownload /\ [][NextDownload]_vars

\* ==================== infrastructure/storage/s3.py: delete_prefix
\* (worker lines 149-178, backend lines 117-145).  Keys are counted, not
\* named: to_delete is len(to_delete), a delete request is the number of
\* keys it carries.
\* the sizes a listing page can have (list_objects_v2 returns at most 1000
\* keys a page and may return fewer)
ListingPageSizes == {0, 1, 400, 600, delete_batch_limit}

\* _client.delete_objects(Delete={"Objects": to_delete}): the store rejects a
\* request with more keys than its batch-delete limit
delete_objects(n) == IF n > delete_batch_limit THEN "rejected" ELSE "deleted"

\* lines 155-167: one page of the paginator: its keys are appended, then the
\* batch is sent and cleared when it holds 1000 keys or more
DeletePrefixPage ==
    /\ deployment = "delete"
    /\ del_pc = "listing"
    /\ pages_listed < MaxListPages
    /\ \E size \in ListingPageSizes :
         LET held == to_delete + size
         IN  /\ pages_listed' = pages_listed + 1
             /\ IF held >= delete_batch_limit
                  THEN /\ delete_requests' = Append(delete_requests, held)
                       /\ IF delete_objects(held) = "rejected"
                            THEN /\ del_pc' = "raised"
                                 /\ to_delete' = held
                            ELSE /\ del_pc' = del_pc
                                 /\ to_delete' = 0
                  ELSE /\ to_delete' = held
                       /\ UNCHANGED <<delete_requests, del_pc>>
    /\ UNCHANGED notDeleteVars

\* lines 169-175: the listing is exhausted; the remaining keys are sent
DeletePrefixEnd ==
    /\ deployment = "delete"
    /\ del_pc = "listing"
    /\ pages_listed >= 1
    /\ IF to_delete > 0
         THEN /\ delete_requests' = Append(delete_requests, to_delete)
              /\ to_delete' = 0
         ELSE UNCHANGED <<delete_requests, to_delete>>
    /\ del_pc' = "done"
    /\ UNCHANGED pages_listed
    /\ UNCHANGED notDeleteVars

InitDelete ==
    /\ deployment = "delete"
    /\ PipelineIdle
    /\ BlocksIdle
    /\ LayoutIdle
    /\ TranslationIdle
    /\ FontIdle
    /\ PathIdle
    /\ FileServiceIdle
    /\ ProcessIdle
    /\ EditIdle
    /\ DownloadIdle
    /\ del_pc = "listing"
    /\ to_delete = 0
    /\ pages_listed = 0
    /\ delete_requests = <<>>

NextDelete == DeletePrefixPage \/ DeletePrefixEnd

SpecDelete == InitDelete /\ [][NextDelete]_vars

\* ==================== preload_models.py and domain/translator/layout.py:
\* the layout model cache.  A LayoutModel object is its number in order of
\* creation (1, 2, ...); layout_models[i] is the YOLO model object i holds
\* (0: the attribute is not set); _MODEL_CACHE and _instances hold <<>> or
\* <<object>> for the one model name in use ("yolo_model" / "yolov10_doc").
\* A call answers [st |-> process state after it, res |-> <<object>>], or
\* res |-> <<>> when it raised.
LayoutState ==
    [cache |-> _MODEL_CACHE, inst |-> _instances,
     models |-> layout_models, built |-> yolo_built]

RECURSIVE LayoutModel(_, _)
RECURSIVE _initialize_model(_, _, _)
RECURSIVE get_cached_model(_, _)

\* preload_models.py lines 70-81
get_cached_model(st, depth) ==
    IF st.cache = <<>>
      THEN LET made == LayoutModel(st, depth)
           IN  IF made.res = <<>>
                 THEN made
                 ELSE [st |-> [made.st EXCEPT !.cache = made.res], res |-> made.res]
      ELSE [st |-> st, res |-> st.cache]

\* layout.py lines 117-134: the model is built from the local file
LoadFromFile(st, self) ==
    IF model_file_exists
      THEN [st |-> [st EXCEPT !.built = @ + 1, !.models[self] = st.built + 1],
            res |-> <<self>>]
      ELSE [st |-> st, res |-> <<>>]

\* layout.py lines 102-138
_initialize_model(st, self, depth) ==
    IF _USE_PRELOAD_CACHE
      THEN LET got == get_cached_model(st, depth)
           IN  IF got.res # <<>> /\ got.st.models[got.res[1]] # 0
                 THEN [st |-> [got.st EXCEPT !.models[self] = got.st.models[got.res[1]]],
                       res |-> <<self>>]
                 ELSE LoadFromFile(got.st, self)
      ELSE LoadFromFile(st, self)

\* layout.py lines 94-100: LayoutModel(model_type).  depth counts the
\* LayoutModel calls already on the interpreter stack; one more than MaxDepth
\* allows raises RecursionError
LayoutModel(st, depth) ==
    IF st.inst # <<>>
      THEN [st |-> st, res |-> st.inst]
      ELSE IF depth >= MaxDepth
             THEN [st |-> st, res |-> <<>>]
             ELSE LET self == Len(st.models) + 1
                      done == _initialize_model([st EXCEPT !.models = Append(@, 0)],
                                                self, depth + 1)
                  IN  IF done.res = <<>>
                        THEN done
                        ELSE [st |-> [done.st EXCEPT !.inst = <<self>>],
                              res |-> <<self>>]

\* preload_models.py lines 48-52 and 66-68
preload_heavy_imports(st) ==
    LET made == LayoutModel(st, 0)
    IN  IF made.res = <<>>
          THEN made
          ELSE [st |-> [made.st EXCEPT !.cache = made.res], res |-> made.res]

\* the process state and the log after a request answered `out`
Answered(kind, out) ==
    /\ _MODEL_CACHE' = out.st.cache
    /\ _instances' = out.st.inst
    /\ layout_models' = out.st.models
    /\ yolo_built' = out.st.built
    /\ asked' = Append(asked, kind)
    /\ returned' = Append(returned, IF out.res = <<>> THEN 0 ELSE out.res[1])
    /\ UNCHANGED <<_USE_PRELOAD_CACHE, model_file_exists>>

\* preload_models.py lines 13-68: runs once, when the worker starts
Preload ==
    /\ deployment = "layout"
    /\ _USE_PRELOAD_CACHE
    /\ asked = <<>>
    /\ Answered("preload", preload_heavy_imports(LayoutState))
    /\ UNCHANGED notLayoutVars

\* preload_models.py line 101: get_cached_model("yolo_model")
GetCachedModel ==
    /\ deployment = "layout"
    /\ _USE_PRELOAD_CACHE
    /\ Len(asked) < MaxRequests
    /\ Answered("get_cached_model", get_cached_model(LayoutState, 0))
    /\ UNCHANGED notLayoutVars

\* layout.py line 157: LayoutModel(model_type)
ConstructLayoutModel ==
    /\ deployment = "layout"
    /\ Len(asked) < MaxRequests
    /\ Answered("LayoutModel", LayoutModel(LayoutState, 0))
    /\ UNCHANGED notLayoutVars

InitLayout ==
    /\ deployment = "layout"
    /\ PipelineIdle
    /\ BlocksIdle
    /\ TranslationIdle
    /\ FontIdle
    /\ PathIdle
    /\ FileServiceIdle
    /\ ProcessIdle
    /\ EditIdle
    /\ DownloadIdle
    /\ DeleteIdle
    /\ _MODEL_CACHE = <<>>
    /\ _instances = <<>>
    /\ _USE_PRELOAD_CACHE \in BOOLEAN
    /\ model_file_exists \in BOOLEAN
    /\ layout_models = <<>>
    /\ yolo_built = 0
    /\ asked = <<>>
    /\ returned = <<>>

NextLayout == Preload \/ GetCachedModel \/ ConstructLayoutModel

SpecLayout == InitLayout /\ [][NextLayout]_vars

\* ==================== core/translation/translator.py lines 43-132:
\* TranslationEngine.translate_text_blocks.  A text is a sequence of
\* characters, " " standing for white space and "a" for any other character.
BlockChars == {" ", "a"}
BlockTexts == UNION {[1 .. k -> BlockChars] : k \in 0 .. MaxBlockTextLen}

\* str.strip()
RECURSIVE lstrip(_)
lstrip(s) == IF s # <<>> /\ Head(s) = " " THEN lstrip(Tail(s)) ELSE s
RECURSIVE rstrip(_)
rstrip(s) ==
    IF s # <<>> /\ s[Len(s)] = " " THEN rstrip(SubSeq(s, 1, Len(s) - 1)) ELSE s
strip(s) == rstrip(lstrip(s))

\* the input blocks: a text each, and the position information that tells
\* them apart
TextBlock(i, text) == [position |-> i, original_text |-> text]
BlockLists ==
    UNION {{[i \in 1 .. n |-> TextBlock(i, f[i])] : f \in [1 .. n -> BlockTexts]} :
           n \in 0 .. MaxBlocks}

\* lines 73-77: the indices of the blocks whose stripped text is not empty
RECURSIVE block_indices_from(_, _)
block_indices_from(blocks, i) ==
    IF i > Len(blocks) THEN <<>>
    ELSE IF strip(blocks[i].original_text) # <<>>
      THEN <<i>> \o block_indices_from(blocks, i + 1)
      ELSE block_indices_from(blocks, i + 1)
block_indices(blocks) == block_indices_from(blocks, 1)
texts_to_translate(blocks) ==
    [k \in 1 .. Len(block_indices(blocks)) |->
       strip(blocks[block_indices(blocks)[k]].original_text)]

\* what the upstream model answers for a text
TranslationOf(text) == <<"t">> \o text

\* lines 87-91: the outcomes of _translate_batch for a non-empty list: an
\* error result, or one entry per text, each the text's translation or, when
\* the text could not be translated, the text itself
BatchOutcomes(tx) ==
    {[success |-> FALSE, translations |-> <<>>]}
    \cup {[success |-> TRUE,
           translations |-> [k \in 1 .. Len(tx) |->
                               IF k \in done THEN TranslationOf(tx[k]) ELSE tx[k]]] :
          done \in SUBSET (1 .. Len(tx))}

\* lines 99-113: the translations are put back on the blocks
RECURSIVE Combine(_, _, _, _)
Combine(blocks, i, trs, translation_index) ==
    IF i > Len(blocks) THEN <<>>
    ELSE IF (\E k \in 1 .. Len(block_indices(blocks)) : block_indices(blocks)[k] = i)
            /\ translation_index < Len(trs)
      THEN <<[position |-> blocks[i].position,
              original_text |-> blocks[i].original_text,
              translated_text |-> trs[translation_index + 1],
              target_language |-> "tgt"]>>
           \o Combine(blocks, i + 1, trs, translation_index + 1)
      ELSE <<[position |-> blocks[i].position,
              original_text |-> blocks[i].original_text,
              translated_text |-> blocks[i].original_text,
              target_language |-> "tgt"]>>
           \o Combine(blocks, i + 1, trs, translation_index)

blocks_success(tb) == [success |-> TRUE, error_code |-> "None", translated_blocks |-> tb]
blocks_error(code) == [success |-> FALSE, error_code |-> code, translated_blocks |-> <<>>]

\* lines 43-132
translate_text_blocks(blocks, supported, batch) ==
    IF ~supported THEN blocks_error("TRANSLATION_FAILED")
    ELSE IF texts_to_translate(blocks) = <<>> THEN blocks_success(<<>>)
    ELSE IF ~batch.success THEN blocks_error("BATCH_TRANSLATION_FAILED")
    ELSE blocks_success(Combine(blocks, 1, batch.translations, 0))

TranslateTextBlocks ==
    /\ deployment = "blocks"
    /\ bpc = "called"
    /\ \E batch \in BatchOutcomes(texts_to_translate(text_blocks)) :
         blocks_result' = translate_text_blocks(text_blocks, language_supported, batch)
    /\ bpc' = "returned"
    /\ UNCHANGED <<text_blocks, language_supported>>
    /\ UNCHANGED notBlocksVars

\* a call of translate_text_blocks with any list of blocks
InitBlocks ==
    /\ deployment = "blocks"
    /\ PipelineIdle
    /\ TranslationIdle
    /\ FontIdle
    /\ PathIdle
    /\ FileServiceIdle
    /\ ProcessIdle
    /\ EditIdle
    /\ DownloadIdle
    /\ DeleteIdle
    /\ LayoutIdle
    /\ bpc = "called"
    /\ text_blocks \in BlockLists
    /\ language_supported \in BOOLEAN
    /\ blocks_result = NoBlocksResult

NextBlocks == TranslateTextBlocks

SpecBlocks == InitBlocks /\ [][NextBlocks]_vars

Next ==
    \/ translate_pdf_endpoint
    \/ OrchBegin
    \/ OrchPrepare
    \/ OrchDispatch
    \/ OrchReturn
    \/ OrchExceptUpdate
    \/ OrchExceptReturn
    \/ LayoutAnalyse
    \/ LayoutDispatchChord
    \/ LayoutDone
    \/ LayoutExceptUpdate
    \/ LayoutExceptReturn
    \/ \E p \in PageIdx : PageSucceed(p)
    \/ \E p \in PageIdx : PageCatch(p)
    \/ \E p \in PageIdx : PageChecksumError(p)
    \/ FinBegin
    \/ FinUploadPdf
    \/ FinUploadData
    \/ FinUploadMeta
    \/ FinDone
    \/ FinExceptUpdate
    \/ FinExceptReturn
    \/ GetTaskStatus
    \/ upload_pdf
    \/ OrigOrchConvert
    \/ OrigOrchChord
    \/ OrigOrchReturn
    \/ OrigOrchExceptUpdate
    \/ OrigOrchExceptReturn
    \/ \E p \in PageIdx : OrigPageReturn(p)
    \/ \E p \in PageIdx : OrigPageRaise(p)
    \/ OrigCombineBegin
    \/ OrigCombineWrite
    \/ OrigCombineDone
    \/ OrigCombineExceptUpdate
    \/ OrigCombineExceptReturn
    \/ GetTranslationStatus
    \/ StartTranslationTask
    \/ ModTaskStarted
    \/ ModTaskRetry
    \/ ModTaskSucceeded
    \/ ModTaskFailed
    \/ CancelTask
    \/ ModTaskRevoked
    \/ TaskServiceGetTaskStatus

Spec == Init /\ [][Next]_vars

\* ================================================================== claims
PageNumbers(pages) == [k \in 1 .. Len(pages) |-> pages[k].page_number]
StrictlyAscending(q) == \A i, j \in 1 .. Len(q) : i < j => q[i] < q[j]
Range(q) == {q[k] : k \in 1 .. Len(q)}
OkPages(rl) == {rl[k].page_number : k \in {i \in 1 .. Len(rl) : ~Truthy(rl[i].error)}}

\* the answer a status request would get in the current state
StatusNow == {get_task_status(e).status : e \in BOOLEAN}

\* C1 (as claimed): whenever the status endpoint saw the orchestrator in
\* SUCCESS with a result_task_id X and X in PROGRESS, it answered PROCESSING.
C1_StatusIndirection ==
    (resp.code = 200 /\ resp.o_state = "SUCCESS" /\ resp.has_ptr
       /\ resp.x_state = "PROGRESS")
    => resp.status = "PROCESSING"

\* C2 (as claimed): the orchestrator's successful return value carries a
\* result_task_id and it is the id of the finalizer task.
C2_PointerIsFinalizer ==
    (deployment \in {"monolithic", "original"} /\ cstate[OrchId] = "SUCCESS"
       /\ cinfo[OrchId].status = "PROCESSING")
    => ("result_task_id" \in cinfo[OrchId].keys /\ cinfo[OrchId].result_task_id = FinId)

\* C3 (as claimed): an orchestrator in SUCCESS without result_task_id is
\* answered PROCESSING by the status endpoint.
C3_NoPointerProcessing ==
    (deployment \in {"monolithic", "original"} /\ resp.code = 200
       /\ resp.o_state = "SUCCESS" /\ ~resp.has_ptr)
    => resp.status = "PROCESSING"

\* C3 (amended): an orchestrator in SUCCESS without result_task_id is never
\* answered COMPLETED: main.py answers PROCESSING, main_original.py answers
\* FAILED with a non-empty error.
C3_NoPointerNeverCompleted ==
    (deployment \in {"monolithic", "original"} /\ resp.code = 200
       /\ resp.o_state = "SUCCESS" /\ ~resp.has_ptr)
    => /\ resp.status # "COMPLETED"
       /\ deployment = "monolithic" => resp.status = "PROCESSING"
       /\ deployment = "original" => (resp.status = "FAILED" /\ resp.error = NoPtrMsg)

C3_Witness ==
    /\ deployment = "monolithic"
    /\ resp.code = 200 /\ resp.o_state = "SUCCESS" /\ ~resp.has_ptr
    /\ resp.status = "PROCESSING"

C5_FailedHasError ==
    (resp.code = 200 /\ resp.status = "FAILED") => Truthy(resp.error)

C7_PagesAscending ==
    /\ StrictlyAscending(PageNumbers(pdf))
    /\ StrictlyAscending(tdata)
    /\ StrictlyAscending(pdata)

C7_Witness ==
    /\ Len(results) >= 2
    /\ results[1].page_number > results[2].page_number
    /\ Len(pdf) >= 2 /\ Len(tdata) >= 2 /\ Len(pdata) >= 2

\* C8: when the finalizer has finished on input with exactly one errored page
\* and at least one good page, the PDF holds exactly the other pages, the
\* metadata's errors list has length 1, and the document is never answered
\* FAILED, and is answered COMPLETED once the orchestrator has returned.
C8_OneErrorCase ==
    /\ deployment = "monolithic"
    /\ fpc = "done"
    /\ Len(ErrorsOf(results)) = 1
    /\ Len(results) >= 2

C8_PartialFailureCompleted ==
    C8_OneErrorCase
    => /\ Range(PageNumbers(pdf)) = OkPages(results)
       /\ Len(pdf) = Len(results) - 1
       /\ Len(meta.errors) = 1
       /\ meta.pages = Len(results)
       /\ cinfo[FinId].status = "COMPLETED"
       /\ "FAILED" \notin StatusNow
       /\ opc = "done" => StatusNow = {"COMPLETED"}

C8_Witness ==
    /\ C8_OneErrorCase
    /\ opc = "done"
    /\ resp.code = 200 /\ resp.status = "COMPLETED"

\* C9 (as claimed): when every page result handed to the finalizer carries an
\* error, the document is answered FAILED, not COMPLETED.
C9_AllPagesFailedIsFailed ==
    (deployment = "monolithic" /\ fpc = "done" /\ opc = "done" /\ lpc = "done"
       /\ Len(results) >= 1 /\ Len(ErrorsOf(results)) = Len(results))
    => StatusNow = {"FAILED"}

\* C10 (as claimed): no failure of a single page task, a storage integrity
\* error that outlasts every automatic retry included, keeps the finalizer
\* from running.
C10_PageFailureContained ==
    deployment = "monolithic" => (fpc # "chord_error" /\ \A p \in PageIdx : ppc[p] # "failed")

\* C11: a page task is re-queued only by an execution that raised the
\* storage-read integrity error (FlexibleChecksumError), never more than
\* MaxRetries times and with a countdown of at most retry_backoff_max
\* seconds; it ends in failure only when that error outlives the retries; an
\* execution that raised any other exception returns the per-page placeholder
\* (error set, no text or image regions), which the chord collects.
C11_Step(p) ==
    /\ pretries'[p] /= pretries[p] =>
          /\ prun'[p].exc = "checksum"
          /\ pretries'[p] = pretries[p] + 1
          /\ pretries'[p] <= MaxRetries
          /\ prun'[p].countdown <= retry_backoff_max
    /\ (ppc[p] = "queued" /\ ppc'[p] = "failed") =>
          /\ prun'[p].exc = "checksum"
          /\ pretries[p] = MaxRetries
    /\ (ppc[p] = "queued" /\ prun'[p] /= prun[p] /\ prun'[p].exc = "other") =>
          /\ ppc'[p] = "done"
          /\ pretries'[p] = pretries[p]
          /\ results' = Append(results, PagePlaceholder(p, ErrMsg))
          /\ Truthy(results'[Len(results')].error)
          /\ results'[Len(results')].text_regions = <<>>
          /\ results'[Len(results')].image_regions = <<>>

C11_RetryOnlyChecksum ==
    [][deployment = "monolithic" => \A p \in PageIdx : C11_Step(p)]_vars

\* a page that used all its retries on checksum errors and whose last
\* execution raised another exception, returned as the placeholder
C11_Witness ==
    \E p \in PageIdx :
        /\ deployment = "monolithic"
        /\ pretries[p] = MaxRetries
        /\ prun[p].exc = "other"
        /\ ppc[p] = "done"
        /\ \E k \in 1 .. Len(results) : results[k] = PagePlaceholder(p, ErrMsg)

\* C12: whatever the upstream API answers (the correct response, a response
\* with the wrong number of items, an error), a list of translations returned
\* by the client's translate_texts, by _translate_batch or by
\* translate_text_async has exactly the length of the input list.
C12_SameLength ==
    /\ (tpc \in {"done", "done_async"} /\ tresult.success) =>
          Len(tresult.translations) = Len(texts)
    /\ tpc \in {"batch", "individual"} =>
          \A api \in ApiOutcomes(batch_texts) :
              translate_texts(batch_texts, api).success =>
                  Len(translate_texts(batch_texts, api).translations) = Len(batch_texts)

\* a list of more than one sub-batch was returned after an upstream response
\* with the wrong number of items
C12_Witness ==
    /\ tpc = "done"
    /\ tresult.success
    /\ Len(texts) > batch_size
    /\ translations = <<>>
    /\ tapi.kind = "response"
    /\ tapi.count /= Len(texts) - batch_size

\* C13: in _translate_batch, a sub-batch whose call fails or is answered with
\* the wrong number of items is handed to _translate_individually, which
\* translates every text of the sub-batch alone; a text whose own call fails
\* is replaced by the original text and counted as failed; and the function
\* still returns success for the whole list.
C13_Mismatched(api, b) == api.kind /= "response" \/ api.count /= Len(b)

C13_Step ==
    /\ (tpc = "batch" /\ batch_i < Len(texts) /\ C13_Mismatched(tapi', batch_texts)) =>
          tpc' = "individual"
    /\ (tpc = "individual" /\ Len(translations') = Len(translations) + 1
          /\ (tapi'.kind /= "response" \/ tapi'.count = 0)) =>
          /\ translations'[Len(translations')] = batch_texts[Len(translations')]
          /\ failed_count' = failed_count + 1
    /\ (tpc = "individual" /\ tpc' = "batch") =>
          Len(all_translations') = Len(all_translations) + Len(batch_texts)
    /\ tpc' = "done" => tresult'.success

C13_FallbackIndividually == [][(tpc \in {"batch", "individual"}) => (C13_Step)]_vars

\* C14: whatever the text, the box and the initial font size a caller
\* computes, the font size adjust_paragraph_font_size leaves in the style is
\* at least the caller's floor and at most the caller's ceiling.
C14_FontWithinBounds ==
    apc = "returned" =>
        /\ style.fontSize >= fit.min_font_size
        /\ style.fontSize <= fit.max_font_size

\* the components of p continue those of base: p is base itself or below it
Inside(base, p) ==
    LET b == resolve(base)
    IN  Len(b) <= Len(p) /\ SubSeq(p, 1, Len(b)) = b

\* a filename engineered to escape base: joined to base as it stands, it
\* resolves to a path that is not inside base
Escapes(base, name) == ~Inside(base, resolve_joined(base, name))

\* C15 as stated: get_safe_path raises a validation error for every filename
\* engineered to escape base, and never returns a path outside base.
C15_TraversalRaises ==
    gpc = "returned" =>
        /\ Escapes(base_path, filename) => gresult.raised /= None
        /\ gresult.raised = None => Inside(base_path, gresult.path)

\* C15 amended: get_safe_path never returns a path outside base; it raises
\* only PATH_TRAVERSAL_DETECTED, and only for a filename that is ".." once
\* cleaned; any other filename, engineered or not, is returned as the path of
\* its cleaned name directly inside base (or base itself for ".").
C15_NeverOutsideBase ==
    gpc = "returned" =>
        /\ gresult.raised = None => Inside(base_path, gresult.path)
        /\ gresult.raised /= None =>
              /\ gresult.raised = "PATH_TRAVERSAL_DETECTED"
              /\ clean_filename(filename) = <<".", ".">>
        /\ (gresult.raised = None /\ clean_filename(filename) /= <<".">>) =>
              gresult.path = Append(resolve(base_path), clean_filename(filename))

\* an engineered filename with a separator in it, answered with a path
C15_Witness ==
    /\ gpc = "returned"
    /\ Escapes(base_path, filename)
    /\ \E k \in 1 .. Len(filename) : filename[k] = "/"
    /\ gresult.raised = None
    /\ Inside(base_path, gresult.path)

\* C16: a load_translation_data(t) that directly follows a successful
\* save_translation_data(t, d) succeeds and returns a value equal to d.
C16_RoundTrip ==
    [][(fs_last.op = "save" /\ fs_last.raised = None /\ fs_last'.op = "load"
        /\ fs_last'.task_id = fs_last.task_id) =>
           (fs_last'.raised = None /\ fs_last'.value = fs_last.data)]_vars

\* a two-page TranslationData whose texts need escaping was loaded back
C16_Witness ==
    /\ fs_last.op = "load"
    /\ fs_last.raised = None
    /\ Len(fs_last.value.v[1].val.v) = 2
    /\ LET text == files[get_translation_data_path(fs_last.task_id)]
       IN  \E k \in 1 .. Len(text) : text[k] = "\\"

\* the name does not end in ".pdf", whatever the case of the letters
LacksPdfExtension(name) ==
    Len(name) < 4 \/ lower(SubSeq(name, Len(name) - 3, Len(name))) /= <<".", "p", "d", "f">>

\* C17: save_uploaded_file validates before it writes: a file whose name
\* lacks the .pdf extension is rejected with INVALID_FILE_TYPE, a file above
\* the size ceiling is rejected (with FILE_TOO_LARGE unless its type was
\* rejected first), and in both cases the upload directory is left as it was.
C17_Step ==
    /\ LacksPdfExtension(up_last'.filename) => up_last'.raised = "INVALID_FILE_TYPE"
    /\ up_last'.size > MAX_FILE_SIZE_MB * 1024 * 1024 =>
          /\ up_last'.raised \in {"INVALID_FILE_TYPE", "FILE_TOO_LARGE"}
          /\ is_valid_pdf(up_last'.filename) => up_last'.raised = "FILE_TOO_LARGE"
    /\ (LacksPdfExtension(up_last'.filename)
          \/ up_last'.size > MAX_FILE_SIZE_MB * 1024 * 1024) => uploads' = uploads

C17_ValidatesBeforePersisting == [][(fs_pc = "upload") => (C17_Step)]_vars

\* with files already in the upload directory, an oversized PDF was rejected
C17_Witness ==
    /\ fs_pc = "upload"
    /\ DOMAIN uploads /= {}
    /\ ~LacksPdfExtension(up_last.filename)
    /\ up_last.size > MAX_FILE_SIZE_MB * 1024 * 1024
    /\ up_last.raised = "FILE_TOO_LARGE"

\* C18 (as claimed): POST /pdfs/translate with a filename that does not end
\* in .pdf is answered with HTTP 400, and no orchestrator task is enqueued for
\* it.
C18_NonPdfAnswered400 ==
    (deployment = "monolithic" /\ upload \notin {"none", "accepted"})
    => /\ upload = "http400"
       /\ opc = "idle"

\* C19 (as claimed): DELETE /api/translation/{id}: when revoking the queue
\* task fails, the HTTP response status is 500.
C19_RevokeFailureAnswered500 ==
    (deployment = "modular" /\ cancel.revoke = "failed") => cancel.code = 500

\* the task ended through its exception handler: it recorded FAILURE and then
\* returned the {'status': 'failed', 'error': ...} mapping
TerminatedByException(t) == cstate[t] = "SUCCESS" /\ cinfo[t] = FailedReturn(ErrMsg)

\* no task of the document is queued or running any more
Settled ==
    /\ opc = "done"
    /\ lpc \in {"idle", "done"}
    /\ \A p \in PageIdx : ppc[p] \in {"idle", "done", "failed"}
    /\ fpc \in {"idle", "done", "failed", "chord_error"}

\* C20 (as claimed): if the orchestrator task, the layout/batch-dispatch task
\* or the finalizer task terminates because of an exception, the status
\* endpoint eventually reports FAILED for the document and does not keep
\* reporting PROCESSING forever.  Once every task has ended nothing but the
\* status requests acts, so every later answer is the one given in that state.
C20_ExceptionReportedFailed ==
    (deployment = "monolithic" /\ Settled
       /\ \E t \in {OrchId, LayoutId, FinId} : TerminatedByException(t))
    => ("FAILED" \in StatusNow /\ "PROCESSING" \notin StatusNow)

\* C21 (as claimed): once the status endpoint has reported COMPLETED for a
\* task, a request for that task's translated PDF, translation data or
\* position data never yields 404.  Stated of every state in which COMPLETED
\* is the latest status answer.
C21_CompletedNever404 ==
    (deployment = "monolithic" /\ resp.code = 200 /\ resp.status = "COMPLETED")
    => 404 \notin {get_translated_pdf, get_translation_data, get_position_data}

\* C22: in process_translation a stage that returns a failed TaskResult is the
\* last stage executed and its TaskResult is what the caller gets, unchanged;
\* the stages run once each, in order.
C22_ShortCircuit ==
    deployment = "orchestrator" =>
      /\ \A i \in 1 .. Len(stage_results) :
           /\ stage_results[i].origin = i
           /\ (~stage_results[i].success /\ ~stage_results[i].raised) =>
                /\ i = Len(stage_results)
                /\ wpc = "returned"
                /\ process_result = stage_results[i]
      /\ Len(progress) = Len(stage_results)

C22_Witness ==
    /\ deployment = "orchestrator"
    /\ wpc = "returned"
    /\ Len(stage_results) = 4
    /\ process_result = StageError(4, "FONT_NOT_AVAILABLE")

\* C23 (as claimed): the regenerated PDF contains exactly one page for each
\* entry of PositionData.pages, in that order, and each region's text is the
\* translated_text of the TranslationData entry with the same (page_number,
\* region id).
C23_RegeneratedFromPositionData ==
    (deployment = "edit" /\ regen_last.ok) =>
      /\ PageNumbers(e_pdf) = PageNumbers(e_pdata.pages)
      /\ \A k \in 1 .. Len(e_pdf) :
           e_pdf[k].text_regions =
             DrawnRegions(e_pdata.pages[k].regions, e_pdata.pages[k].page_number,
                          regen_last.translation_data)

\* C24 (as claimed): whenever a page is rendered, in finalization or in
\* regeneration, its image regions are cropped from the stored raster of that
\* same page_number, including when earlier pages were left out because they
\* carried an error.
C24_RasterOfSamePage ==
    deployment = "edit" =>
      \A k \in 1 .. Len(e_pdf) :
        e_pdf[k].image_regions # <<>> => e_pdf[k].raster = e_pdf[k].page_number

\* C25 (as claimed): when two edit requests for the same task overlap and
\* both finish, the stored TranslationData and the stored translated PDF
\* reflect the same one of the two edits.
C25_SameEditStored ==
    (deployment = "edit" /\ \A r \in Requests : req[r].pc = "done" /\ req[r].code = 200)
    => e_tdata = regen_last.translation_data

\* a pass that failed with a transport error other than a checksum failure
TransportError(o) == o.get \in {"client_error", "other_error"} \/ o.read = "other_error"

\* C26: download_bytes never makes more than max_retries attempts; when every
\* attempt fails with a transport error other than a checksum-validation
\* failure it makes exactly max_retries attempts, waits between them for
\* strictly increasing times and not after the last, and raises the exception
\* of the last attempt.
C26_TransportErrorsRetried ==
    deployment = "download" =>
      /\ Len(d_attempts) <= max_retries
      /\ \A i, j \in 1 .. Len(d_waits) : i < j => d_waits[i] < d_waits[j]
      /\ (d_pc # "running" /\ \A i \in 1 .. Len(d_attempts) : TransportError(d_attempts[i]))
           => /\ d_pc = "raised"
              /\ Len(d_attempts) = max_retries
              /\ Len(d_waits) = max_retries - 1
              /\ d_result.exception =
                   last_exception_of(d_attempts[max_retries], max_retries - 1)

C26_Witness ==
    /\ deployment = "download"
    /\ d_pc = "raised"
    /\ \A i \in 1 .. Len(d_attempts) : TransportError(d_attempts[i])
    /\ d_result.exception = [kind |-> "ClientError", attempt |-> max_retries - 1]
    /\ Len(d_waits) = 2

\* C27 (as claimed): download_bytes re-reads the raw response body bypassing
\* checksum validation only as a last resort, that is only after the
\* checksum-validated read has failed on all 3 attempts.
C27_BypassLastResort ==
    deployment = "download" =>
      \A i \in 1 .. Len(d_attempts) :
        d_attempts[i].bypass # "none" =>
          /\ i = max_retries
          /\ \A j \in 1 .. i : d_attempts[j].read = "checksum"

\* C28 (as claimed): every batch-delete request issued by delete_prefix
\* contains at most 1000 keys, for any number of keys under the prefix and any
\* sizes of the listing pages.
C28_BatchAtMostLimit ==
    deployment = "delete" =>
      \A i \in 1 .. Len(delete_requests) : delete_requests[i] <= delete_batch_limit

\* C29 (as claimed): within one worker process the layout model is built
\* once, whichever of preloading, get_cached_model or LayoutModel construction
\* asks for it first, and every request that is answered is answered with the
\* same instance.
C29_OneCachedInstance ==
    deployment = "layout" =>
      /\ yolo_built <= 1
      /\ \A i, j \in 1 .. Len(returned) :
           (returned[i] # 0 /\ returned[j] # 0) => returned[i] = returned[j]

\* C30 (as claimed): translate_text_blocks, when it succeeds, returns one
\* block per input block, in input order, and every block whose text is empty
\* comes back with its position and its text as they were.
C30_EmptyBlocksPassedThrough ==
    (deployment = "blocks" /\ bpc = "returned" /\ blocks_result.success) =>
      /\ Len(blocks_result.translated_blocks) = Len(text_blocks)
      /\ \A i \in 1 .. Len(text_blocks) :
           /\ blocks_result.translated_blocks[i].position = text_blocks[i].position
           /\ strip(text_blocks[i].original_text) = <<>> =>
                /\ blocks_result.translated_blocks[i].original_text
                     = text_blocks[i].original_text
                /\ blocks_result.translated_blocks[i].translated_text
                     = text_blocks[i].original_text

====
